---- MODULE Spec2Model ----
(***************************************************************************)
(* Model of pydoc-markdown-nuxt: the docstring section-to-component        *)
(* rewrite rules of MDCMarkdownRenderer, the component block builders of    *)
(* utils.py and the frontmatter assembly of NuxtRenderer.                   *)
(*                                                                         *)
(* Text is a sequence of tokens.  A token is either one punctuation or      *)
(* white-space character, or a word: a non-empty run of word characters     *)
(* (\w) that no pattern of the program looks into.  Component names are     *)
(* spelled letter by letter because the kebab-case conversion looks at      *)
(* single letters.                                                          *)
(***************************************************************************)
EXTENDS Integers, Sequences, FiniteSets, TLC

NL == "\n"
SP == " "
\* The backtick character (the lexer of TLA+ does not accept it inside a string).
BT == "<backtick>"
STAR == "*"
COLON == ":"
DASH == "-"
QUOTE == "\""

\* Characters that are not word characters (\w) in the modelled texts.
Punct == {NL, SP, BT, STAR, COLON, DASH, QUOTE, "+", "[", "]", "{", "}", "=", ".", "(", ")"}

\* \s of the re module, restricted to the white space the texts contain.
IsSpace(c) == c \in {NL, SP}

\* \w of the re module: every token that is not punctuation is a run of word characters.
IsWord(c) == c \notin Punct

Uppers == <<"A", "B", "C", "D", "E", "F", "G", "H", "I", "J", "K", "L", "M",
            "N", "O", "P", "Q", "R", "S", "T", "U", "V", "W", "X", "Y", "Z">>
Lowers == <<"a", "b", "c", "d", "e", "f", "g", "h", "i", "j", "k", "l", "m",
            "n", "o", "p", "q", "r", "s", "t", "u", "v", "w", "x", "y", "z">>

\* [A-Z] of the re module.
IsUpper(c) == \E k \in 1..26 : Uppers[k] = c

\* str.lower on one character.
LowerChar(c) == IF IsUpper(c) THEN Lowers[CHOOSE k \in 1..26 : Uppers[k] = c] ELSE c

\* str.lower
Lower(s) == [k \in 1..Len(s) |-> LowerChar(s[k])]

RECURSIVE Concat(_)
\* "".join(parts)
Concat(parts) == IF parts = <<>> THEN <<>> ELSE Head(parts) \o Concat(Tail(parts))

\* text[i:j+1] with 1-based inclusive bounds, empty when j < i.
Slice(s, i, j) == IF j < i THEN <<>> ELSE SubSeq(s, i, j)

\* text.startswith(lit, i-1)
StartsWith(s, i, lit) == /\ i >= 1
                         /\ i + Len(lit) - 1 <= Len(s)
                         /\ \A k \in 1..Len(lit) : s[i + k - 1] = lit[k]

\* lit in text
Contains(s, lit) == \E i \in 1..(Len(s) - Len(lit) + 1) : StartsWith(s, i, lit)

\* Number of (possibly overlapping) places where lit occurs in text.
Occurrences(s, lit) == Cardinality({i \in 1..(Len(s) - Len(lit) + 1) : StartsWith(s, i, lit)})

\* The value of an expression under a name: a local variable of the code.
With(v, Op(_)) == Op(v)

\* min(S), or d for the empty set.
MinOr(S, d) == IF S = {} THEN d ELSE CHOOSE x \in S : \A y \in S : x <= y

\* max(S), or d for the empty set.
MaxOr(S, d) == IF S = {} THEN d ELSE CHOOSE x \in S : \A y \in S : y <= x

\* The first index k in i..n with P(k), n+1 when there is none: where a scan
\* from the left stops.
First(P(_), i, n) == MinOr({k \in i..n : P(k)}, n + 1)

\* The last index k in 1..n with P(k), 0 when there is none.
Last(P(_), n) == MaxOr({k \in 1..n : P(k)}, 0)

\* End of a greedy \s* that starts at i: the first index >= i that holds no white space.
SkipSpaces(s, i) == First(LAMBDA k : ~IsSpace(s[k]), i, Len(s))

\* End of a greedy \w* that starts at i.
SkipWords(s, i) == First(LAMBDA k : ~IsWord(s[k]), i, Len(s))

\* First index >= i that holds c, Len(s)+1 when there is none.
FindTok(s, i, c) == First(LAMBDA k : s[k] = c, i, Len(s))

\* First index >= i where lit starts, Len(s)+1 when there is none.
FindLit(s, i, lit) == First(LAMBDA k : StartsWith(s, k, lit), i, Len(s))

\* str.strip
Strip(s) == Slice(s, SkipSpaces(s, 1), Last(LAMBDA k : ~IsSpace(s[k]), Len(s)))

\* text.count("\n") over text[i:j+1]
CountNL(s, i, j) == Cardinality({k \in i..j : s[k] = NL})

(***************************************************************************)
(* utils.py                                                                *)
(***************************************************************************)

\* The first character gets a dash too.
InsertDashes_Leading(name) ==
    Concat([k \in 1..Len(name) |-> IF IsUpper(name[k]) THEN <<DASH, name[k]>> ELSE <<name[k]>>])

\* re.sub(r"(?<!^)(?=[A-Z])", "-", component_name): a dash before every
\* upper-case letter that is not the first character.
InsertDashes(name) ==
    Concat([k \in 1..Len(name) |-> IF k > 1 /\ IsUpper(name[k]) THEN <<DASH, name[k]>> ELSE <<name[k]>>])

_convert_to_kebab_case(component_name) ==
    IF \E k \in 1..Len(component_name) : component_name[k] = DASH
    THEN Lower(component_name)
    ELSE Lower(InsertDashes(component_name))

\* f"::{component_name}"
OpenMarker(component) == <<COLON, COLON>> \o _convert_to_kebab_case(component)

CloseMarker == <<COLON, COLON>>

\* One entry of the YAML-like item list written by create_mdc_arguments.
ArgumentEntry(arg) ==
    <<SP, SP, DASH, SP, "name", COLON, SP>> \o arg.name \o <<NL>>
    \o <<SP, SP, SP, SP, "type", COLON, SP>> \o arg.type \o <<NL>>
    \o <<SP, SP, SP, SP, "content", COLON, SP>> \o arg.content \o <<NL>>

ItemListBlock(key, items, component) ==
    OpenMarker(component) \o <<NL>>
    \o <<DASH, DASH, DASH, NL, key, COLON, NL>>
    \o Concat([k \in 1..Len(items) |-> ArgumentEntry(items[k])])
    \o <<DASH, DASH, DASH>>
    \o <<NL>> \o CloseMarker

create_mdc_arguments(arguments, component) == ItemListBlock("arguments", arguments, component)

create_mdc_variables(variables, component) == ItemListBlock("variables", variables, component)

\* props of create_mdc_alert: type="<type>" title="<title>"
AlertProps(type, title) ==
    <<"type", "=", QUOTE, type, QUOTE>>
    \o (IF title # "" THEN <<SP, "title", "=", QUOTE, title, QUOTE>> ELSE <<>>)

create_mdc_alert(content, type, title, component) ==
    OpenMarker(component) \o <<"{">> \o AlertProps(type, title) \o <<"}">> \o <<NL>>
    \o content \o <<NL>> \o CloseMarker

FENCE == <<BT, BT, BT>>

\* One fenced block written by create_mdc_code_group.
CodeGroupEntry(block) ==
    (IF block.filename # <<>>
     THEN FENCE \o block.language \o <<SP, "[">> \o block.filename \o <<"]", NL>>
     ELSE FENCE \o block.language \o <<NL>>)
    \o block.code \o <<NL>> \o FENCE \o <<NL>>

create_mdc_code_group(code_blocks, component) ==
    OpenMarker(component) \o <<NL>>
    \o Concat([k \in 1..Len(code_blocks) |-> CodeGroupEntry(code_blocks[k])])
    \o CloseMarker

(***************************************************************************)
(* renderer.py: MDCMarkdownRenderer                                        *)
(***************************************************************************)

\* Letters of a component name.
UArguments == <<"U", "A", "r", "g", "u", "m", "e", "n", "t", "s">>
UReturns == <<"U", "R", "e", "t", "u", "r", "n", "s">>
UCodeGroup == <<"U", "C", "o", "d", "e", "G", "r", "o", "u", "p">>
UAlert == <<"U", "A", "l", "e", "r", "t">>
UCallout == <<"U", "C", "a", "l", "l", "o", "u", "t">>

\* The default of the field mdc_components (the keys the rewrite rules read).
DefaultComponents ==
    [arguments |-> UArguments, returns |-> UReturns, examples |-> UCodeGroup,
     notes |-> UAlert, warnings |-> UAlert, raises |-> UCallout, code_block |-> UCodeGroup]

\* A configuration with names that are already kebab-case or lower-case, and
\* without the keys returns and code_block (the rules fall back to their defaults).
CustomComponents ==
    [arguments |-> <<"P", "r", "o", "s", "e", DASH, "A", "r", "g", "s">>,
     examples |-> <<"t", "a", "b", "s">>,
     notes |-> <<"N", "o", "t", "e">>,
     warnings |-> <<"W", "a", "r", "n">>,
     raises |-> <<"E", "r", "r", "o", "r", "B", "o", "x">>]

\* dict.get(key, default)
Get(components, key, default) == IF key \in DOMAIN components THEN components[key] ELSE default

\* The bolded heading marker **<section_name>**:
Heading(section_name) == <<STAR, STAR, section_name, STAR, STAR, COLON>>

\* A match of the pattern of a rule: the first index after it, its group(1) and what replaces it.
NoMatch == [ok |-> FALSE, end |-> 0, body |-> <<>>, repl |-> <<>>]


VARIABLES
    given,          \* the blocks the docstring of the call is written from
    mdc_components, \* MDCMarkdownRenderer.mdc_components
    call,           \* the method that was called on the renderer
    docstring,      \* the argument of the call
    processed,      \* the local variable processed (the result once pc = "done")
    pc              \* the rewrite rule that runs next

SetMax(S) == CHOOSE x \in S : \A y \in S : y <= x

\* Letters of a section name, for the fallback component name f"U{section_name}".
Spell(section_name) ==
    IF section_name = "Arguments" THEN Tail(UArguments) ELSE <<section_name>>

\* Ends b of the prefix HEADING \s*\n\n of a match at h, as first index after it.
BodyStarts(s, h) ==
    LET c == h + 6
        w == SkipSpaces(s, c)
    IN {b \in (c + 2)..w : s[b - 2] = NL /\ s[b - 1] = NL}

\* (?=\n\n\*\*|\Z) at index p
AtSectionEnd(s, p) == p = Len(s) + 1 \/ StartsWith(s, p, <<NL, NL, STAR, STAR>>)

\* One match of \s*- `([^`]+)` - (.+) at index i; end is the first index after it.
ItemAt(s, i) ==
    With(SkipSpaces(s, i), LAMBDA a :
    With(FindTok(s, a + 3, BT), LAMBDA q :
    With(FindTok(s, q + 4, NL), LAMBDA e :
        IF /\ StartsWith(s, a, <<DASH, SP, BT>>)
           /\ q > a + 3
           /\ StartsWith(s, q, <<BT, SP, DASH, SP>>)
           /\ e > q + 4
        THEN [ok |-> TRUE, name |-> SubSeq(s, a + 3, q - 1), desc |-> SubSeq(s, q + 4, e - 1), end |-> e]
        ELSE [ok |-> FALSE, name |-> <<>>, desc |-> <<>>, end |-> i])))

RECURSIVE ItemsEnd(_, _)
\* End of the greedy repetition (?:\s*- `[^`]+` - .+\n?)* that starts at i.
ItemsEnd(s, i) ==
    With(ItemAt(s, i), LAMBDA r :
        IF ~r.ok THEN i
        ELSE ItemsEnd(s, IF r.end <= Len(s) /\ s[r.end] = NL THEN r.end + 1 ELSE r.end))

RECURSIVE FindItems(_, _)
\* re.finditer(item_pattern, items_text), from index i on.
FindItems(t, i) ==
    With(First(LAMBDA k : ItemAt(t, k).ok, i, Len(t)), LAMBDA h :
        IF h > Len(t) THEN <<>>
        ELSE With(ItemAt(t, h), LAMBDA r : <<r>> \o FindItems(t, r.end)))

\* The bullet split at the last colon of its backticked text.
ParseItem_LastColon(item_match) ==
    With(item_match.name, LAMBDA item_name :
    With(Strip(item_match.desc), LAMBDA item_description :
    With(Last(LAMBDA j : item_name[j] = COLON, Len(item_name)), LAMBDA k :
        IF k >= 1
        THEN [name |-> Strip(Slice(item_name, 1, k - 1)),
              type |-> Strip(Slice(item_name, k + 1, Len(item_name))),
              content |-> item_description]
        ELSE [name |-> item_name, type |-> <<>>, content |-> item_description])))

\* The dictionary appended to items for one matched bullet.
ParseItem(item_match) ==
    With(item_match.name, LAMBDA item_name :
    With(Strip(item_match.desc), LAMBDA item_description :
    With(FindTok(item_name, 1, COLON), LAMBDA k :
        IF k <= Len(item_name)
        THEN [name |-> Strip(Slice(item_name, 1, k - 1)),
              type |-> Strip(Slice(item_name, k + 1, Len(item_name))),
              content |-> item_description]
        ELSE [name |-> item_name, type |-> <<>>, content |-> item_description])))

\* replace_section(match) for the match text group0 and its group(1) items_text.
replace_section(group0, items_text, section_name, component_key) ==
    With(FindItems(items_text, 1), LAMBDA found :
    With([k \in 1..Len(found) |-> ParseItem(found[k])], LAMBDA items :
    With(Get(mdc_components, component_key, <<"U">> \o Spell(section_name)), LAMBDA component :
        IF Strip(items_text) = <<>> \/ items = <<>> THEN group0
        ELSE IF component_key = "arguments" THEN create_mdc_arguments(items, component)
        ELSE create_mdc_variables(items, component))))

\* The section pattern \*\*NAME\*\*:\s*\n\s*\n((?:\s*- `[^`]+` - .+\n?)+) tried at index h.
SectionMatchAt(s, h, section_name, component_key) ==
    IF ~StartsWith(s, h, Heading(section_name)) THEN NoMatch
    ELSE With(SkipSpaces(s, h + 6), LAMBDA w :
         With({k \in (h + 6)..(w - 1) : s[k] = NL}, LAMBDA nls :
            IF Cardinality(nls) < 2 THEN NoMatch
            ELSE With(SetMax(nls) + 1, LAMBDA g :
                 With(ItemsEnd(s, g), LAMBDA e :
                    IF e > g
                    THEN [ok |-> TRUE, end |-> e, body |-> SubSeq(s, g, e - 1),
                          repl |-> replace_section(SubSeq(s, h, e - 1), SubSeq(s, g, e - 1),
                                                   section_name, component_key)]
                    ELSE NoMatch))))

\* replace_returns(match) for the captured body.
replace_returns(body) ==
    OpenMarker(Get(mdc_components, "returns", UReturns)) \o <<NL>> \o Strip(body) \o <<NL>> \o CloseMarker

\* The pattern \*\*Returns\*\*:\s*\n\n([^*]+)(?=\n\n\*\*|\Z) tried at index h.
ReturnsMatchAt(s, h) ==
    IF ~StartsWith(s, h, Heading("Returns")) THEN NoMatch
    ELSE With(FindTok(s, h + 6, STAR), LAMBDA q :
         With(IF q > Len(s) THEN q ELSE q - 2, LAMBDA p :
         With({b \in BodyStarts(s, h) : b < p}, LAMBDA starts :
            IF AtSectionEnd(s, p) /\ starts # {}
            THEN [ok |-> TRUE, end |-> p, body |-> SubSeq(s, SetMax(starts), p - 1),
                  repl |-> replace_returns(SubSeq(s, SetMax(starts), p - 1))]
            ELSE NoMatch)))

\* One match of the fence pattern (three backticks)(\w+)?\n(.*?)\n(three backticks) at index i.
CodeAt(s, i) ==
    With(SkipWords(s, i + 3), LAMBDA u :
    With(FindLit(s, u + 1, <<NL>> \o FENCE), LAMBDA e :
        IF StartsWith(s, i, FENCE) /\ u <= Len(s) /\ s[u] = NL /\ e <= Len(s)
        THEN [ok |-> TRUE,
              language |-> IF u > i + 3 THEN SubSeq(s, i + 3, u - 1) ELSE <<"text">>,
              code |-> Strip(Slice(s, u + 1, e - 1)),
              start |-> i, end |-> e + 4]
        ELSE [ok |-> FALSE, language |-> <<>>, code |-> <<>>, start |-> i, end |-> i]))

RECURSIVE FindCode(_, _)
\* list(re.finditer(code_pattern, text, re.DOTALL)), from index i on.
FindCode(s, i) ==
    With(First(LAMBDA k : CodeAt(s, k).ok, i, Len(s)), LAMBDA h :
        IF h > Len(s) THEN <<>>
        ELSE With(CodeAt(s, h), LAMBDA m : <<m>> \o FindCode(s, m.end)))

\* The dictionaries passed to create_mdc_code_group.
CodeBlocks(matches) ==
    [k \in 1..Len(matches) |->
        [language |-> matches[k].language, filename |-> matches[k].language, code |-> matches[k].code]]

\* replace_examples(match) for the captured body.
replace_examples(body) ==
    With(Strip(body), LAMBDA content :
    With(FindCode(content, 1), LAMBDA code_matches :
        IF code_matches # <<>>
        THEN create_mdc_code_group(CodeBlocks(code_matches), Get(mdc_components, "examples", UCodeGroup))
        ELSE Heading("Examples") \o <<NL, NL>> \o content))

replace_notes(body) ==
    create_mdc_alert(Strip(body), "info", "Note", Get(mdc_components, "notes", UAlert))

replace_warnings(body) ==
    create_mdc_alert(Strip(body), "warning", "Warning", Get(mdc_components, "warnings", UAlert))

\* One match of - `([^`]+)`: (.+) at index i.
RaiseAt(t, i) ==
    With(FindTok(t, i + 3, BT), LAMBDA q :
    With(FindTok(t, q + 3, NL), LAMBDA e :
        IF /\ StartsWith(t, i, <<DASH, SP, BT>>)
           /\ q > i + 3
           /\ StartsWith(t, q, <<BT, COLON, SP>>)
           /\ e > q + 3
        THEN [ok |-> TRUE, exception_type |-> SubSeq(t, i + 3, q - 1),
              description |-> Strip(SubSeq(t, q + 3, e - 1)), end |-> e]
        ELSE [ok |-> FALSE, exception_type |-> <<>>, description |-> <<>>, end |-> i]))

RECURSIVE FindRaises(_, _)
\* re.finditer(item_pattern, items_text) of replace_raises, from index i on.
FindRaises(t, i) ==
    With(First(LAMBDA k : RaiseAt(t, k).ok, i, Len(t)), LAMBDA h :
        IF h > Len(t) THEN <<>>
        ELSE With(RaiseAt(t, h), LAMBDA r : <<r>> \o FindRaises(t, r.end)))

\* "\n".join(exceptions)
JoinExceptions(found) ==
    Concat([k \in 1..Len(found) |->
        (IF k > 1 THEN <<NL>> ELSE <<>>)
        \o <<STAR, STAR>> \o found[k].exception_type \o <<STAR, STAR, COLON, SP>> \o found[k].description])

\* replace_raises(match) for the match text group0 and the captured body.
replace_raises(group0, body) ==
    With(Strip(body), LAMBDA items_text :
    With(FindRaises(items_text, 1), LAMBDA exceptions :
        IF items_text = <<>> \/ exceptions = <<>> THEN group0
        ELSE OpenMarker(Get(mdc_components, "raises", UCallout))
             \o <<NL, DASH, DASH, DASH, NL, "type", COLON, SP, "error", NL, DASH, DASH, DASH, NL>>
             \o JoinExceptions(exceptions) \o <<NL>> \o CloseMarker))

\* The headings the pattern of a rule accepts (Notes? and Warnings? take both forms).
Heads(kind) ==
    CASE kind = "examples" -> {"Examples"}
      [] kind = "notes" -> {"Notes", "Note"}
      [] kind = "warnings" -> {"Warnings", "Warning"}
      [] kind = "raises" -> {"Raises"}

\* The pattern \*\*HEAD\*\*:\s*\n\n(.*?)(?=\n\n\*\*|\Z) of the rule for kind, tried at index h.
LazyMatchAt(s, h, kind) ==
    IF ~\E name \in Heads(kind) : StartsWith(s, h, Heading(name)) THEN NoMatch
    ELSE With(BodyStarts(s, h), LAMBDA starts :
            IF starts = {} THEN NoMatch
            ELSE With(SetMax(starts), LAMBDA b :
                 With(FindLit(s, b, <<NL, NL, STAR, STAR>>), LAMBDA p :
                    [ok |-> TRUE, end |-> p, body |-> Slice(s, b, p - 1),
                     repl |-> CASE kind = "examples" -> replace_examples(Slice(s, b, p - 1))
                                [] kind = "notes" -> replace_notes(Slice(s, b, p - 1))
                                [] kind = "warnings" -> replace_warnings(Slice(s, b, p - 1))
                                [] kind = "raises" -> replace_raises(SubSeq(s, h, p - 1), Slice(s, b, p - 1))])))

\* The match of the pattern of a rule tried at index h.
MatchAt(kind, s, h) ==
    IF kind = "returns" THEN ReturnsMatchAt(s, h) ELSE LazyMatchAt(s, h, kind)

RECURSIVE ReSub(_, _, _)
\* re.sub(pattern, replace, text, flags=re.DOTALL) from index i on: leftmost
\* matches, each replaced, the search resuming at the end of the match.
ReSub(kind, s, i) ==
    With(First(LAMBDA k : MatchAt(kind, s, k).ok, i, Len(s)), LAMBDA h :
        IF h > Len(s) THEN Slice(s, i, Len(s))
        ELSE With(MatchAt(kind, s, h), LAMBDA m : Slice(s, i, h - 1) \o m.repl \o ReSub(kind, s, m.end)))

RECURSIVE SectionSub(_, _, _, _)
\* re.sub(pattern, replace_section, docstring, flags=re.MULTILINE) from index i on.
SectionSub(s, i, section_name, component_key) ==
    With(First(LAMBDA k : SectionMatchAt(s, k, section_name, component_key).ok, i, Len(s)), LAMBDA h :
        IF h > Len(s) THEN Slice(s, i, Len(s))
        ELSE With(SectionMatchAt(s, h, section_name, component_key), LAMBDA m :
                Slice(s, i, h - 1) \o m.repl \o SectionSub(s, m.end, section_name, component_key)))

RECURSIVE Captures(_, _, _)
\* The group(1) of every match that re.sub hands to the replace function of a rule, from index i on.
Captures(kind, s, i) ==
    With(First(LAMBDA k : MatchAt(kind, s, k).ok, i, Len(s)), LAMBDA h :
        IF h > Len(s) THEN <<>>
        ELSE With(MatchAt(kind, s, h), LAMBDA m : <<m.body>> \o Captures(kind, s, m.end)))

_convert_section_to_mdc(text, section_name, component_key) == SectionSub(text, 1, section_name, component_key)

_convert_arguments_to_mdc(text) == _convert_section_to_mdc(text, "Arguments", "arguments")

_convert_returns_to_mdc(text) == ReSub("returns", text, 1)

_convert_examples_to_mdc(text) == ReSub("examples", text, 1)

_convert_notes_to_mdc(text) == ReSub("notes", text, 1)

_convert_warnings_to_mdc(text) == ReSub("warnings", text, 1)

_convert_raises_to_mdc(text) == ReSub("raises", text, 1)

\* The threshold of "if current_group and lines_between > 2".
GroupingThreshold == 2

RECURSIVE GroupBlocks(_, _, _, _, _, _)
\* The loop "for match in matches" of _convert_code_blocks_to_mdc, from the k-th match on.
GroupBlocks(s, matches, k, groups, current_group, last_end) ==
    IF k > Len(matches)
    THEN IF current_group # <<>> THEN Append(groups, current_group) ELSE groups
    ELSE LET match == matches[k]
             lines_between == CountNL(s, last_end, match.start - 1)
         IN IF current_group # <<>> /\ lines_between > GroupingThreshold
            THEN GroupBlocks(s, matches, k + 1, Append(groups, current_group), <<match>>, match.end)
            ELSE GroupBlocks(s, matches, k + 1, groups, Append(current_group, match), match.end)

RECURSIVE ReplaceGroups(_, _, _, _)
\* The loop "for group in groups" of _convert_code_blocks_to_mdc, from the k-th group on.
ReplaceGroups(groups, k, result, offset) ==
    IF k > Len(groups) THEN result
    ELSE With(groups[k], LAMBDA group :
         With(create_mdc_code_group(CodeBlocks(group), Get(mdc_components, "code_block", UCodeGroup)),
              LAMBDA mdc_code_group :
         With(group[1].start + offset, LAMBDA start_pos :
         With(group[Len(group)].end + offset, LAMBDA end_pos :
            IF Len(group) > 1
            THEN ReplaceGroups(groups, k + 1,
                               Slice(result, 1, start_pos - 1) \o mdc_code_group \o Slice(result, end_pos, Len(result)),
                               offset + Len(mdc_code_group) - (end_pos - start_pos))
            ELSE ReplaceGroups(groups, k + 1, result, offset)))))

_convert_code_blocks_to_mdc(text) ==
    With(FindCode(text, 1), LAMBDA matches :
        IF Len(matches) <= 1 THEN text
        ELSE ReplaceGroups(GroupBlocks(text, matches, 1, <<>>, <<>>, 1), 1, text, 0))


(***************************************************************************)
(* The docstrings the rules are applied to.  A docstring is written from   *)
(* a sequence of blocks: headings, bullet lines, paragraphs, fenced code   *)
(* fragments, gaps between fragments and whole sections.                   *)
(***************************************************************************)

MaxBullets == 3
MaxLines == 3
MaxFragments == 2
MaxBlocks == 3

Tick(name) == <<BT>> \o name \o <<BT>>

Fenced(tag, code) == FENCE \o tag \o <<NL>> \o code \o FENCE

PlainBullet == <<DASH, SP>> \o Tick(<<"alpha">>) \o <<SP, DASH, SP, "first">>
TypedBullet == <<DASH, SP>> \o Tick(<<"beta", COLON, SP, "str">>) \o <<SP, DASH, SP, "second", SP, "value">>
SpacedBullet == <<DASH, SP>> \o Tick(<<"gamma", SP, COLON, SP, "map", "[", "k", COLON, SP, "v", "]">>) \o <<SP, DASH, SP, "third">>
BareBullet == <<DASH, SP, "delta", SP, DASH, SP, "bare">>
ValueRaise == <<DASH, SP>> \o Tick(<<"ValueError">>) \o <<COLON, SP, "bad", SP, "value">>
TypeRaise == <<DASH, SP>> \o Tick(<<"TypeError">>) \o <<COLON, SP, "bad", SP, "type">>
PyFragment == Fenced(<<"python">>, <<"x", SP, "=", SP, "one", NL>>)
ShFragment == Fenced(<<"bash">>, <<"ls", NL>>)

\* The text of a block.
Body(id) ==
    CASE id = "intro" -> <<"Intro", SP, "text", ".">>
      [] id = "nl" -> <<NL>>
      [] id = "h_args" -> Heading("Arguments")
      [] id = "h_returns" -> Heading("Returns")
      [] id = "h_examples" -> Heading("Examples")
      [] id = "h_raises" -> Heading("Raises")
      [] id = "h_notes" -> Heading("Notes")
      [] id = "h_note" -> Heading("Note")
      [] id = "h_warnings" -> Heading("Warnings")
      [] id = "h_warning" -> Heading("Warning")
      [] id = "n_text" -> <<"mind", SP, "this", ".">>
      [] id = "b_plain" -> PlainBullet
      [] id = "b_typed" -> TypedBullet
      [] id = "b_spaced" -> SpacedBullet
      [] id = "b_bare" -> BareBullet
      [] id = "r_plain" -> <<"the", SP, "result", ".">>
      [] id = "r_emph" -> <<"a", SP, STAR, "new", STAR, SP, "dict", ".">>
      [] id = "r_more" -> <<"more", SP, "words", ".">>
      [] id = "x_value" -> ValueRaise
      [] id = "x_type" -> TypeRaise
      [] id = "x_prose" -> <<"see", SP, "above", ".">>
      [] id = "f_py" -> PyFragment
      [] id = "f_sh" -> ShFragment
      [] id = "f_plain" -> Fenced(<<>>, <<"output", NL>>)
      [] id = "f_cpp" -> Fenced(<<"c", "+", "+">>, <<"y", NL>>)
      [] id = "f_empty" -> Fenced(<<>>, <<>>)
      [] id = "e_prose" -> <<"run", SP, "it", ".">>
      [] id = "g0" -> <<NL>>
      [] id = "g1b" -> <<NL, NL>>
      [] id = "g1t" -> <<NL, "one", NL>>
      [] id = "g2b" -> <<NL, NL, NL>>
      [] id = "g2t" -> <<NL, "one", NL, "two", NL>>
      [] id = "g3t" -> <<NL, "one", NL, "two", NL, "three", NL>>
      [] id = "s_args" -> Heading("Arguments") \o <<NL, NL>> \o PlainBullet \o <<NL>> \o TypedBullet
      [] id = "s_returns" -> Heading("Returns") \o <<NL, NL, "the", SP, "result", ".">>
      [] id = "s_examples" -> Heading("Examples") \o <<NL, NL>> \o PyFragment \o <<NL, NL>> \o ShFragment
      [] id = "s_notes" -> Heading("Notes") \o <<NL, NL, "keep", SP, "it", ".">>
      [] id = "s_warnings" -> Heading("Warnings") \o <<NL, NL, "not", SP, "safe", ".">>
      [] id = "s_raises" -> Heading("Raises") \o <<NL, NL>> \o ValueRaise \o <<NL>> \o TypeRaise

BulletIds == {"b_plain", "b_typed", "b_spaced", "b_bare"}
RaiseIds == {"x_value", "x_type", "x_prose"}
ExampleIds == {"f_py", "f_sh", "f_plain", "f_cpp", "f_empty", "e_prose"}
GapIds == {"g0", "g1b", "g1t", "g2b", "g2t", "g3t"}
SectionIds == {"s_args", "s_returns", "s_examples", "s_notes", "s_warnings", "s_raises"}
HeadingIds == {"h_args", "h_returns", "h_examples", "h_raises", "h_notes", "h_note", "h_warnings", "h_warning"}
LineIds == BulletIds \cup RaiseIds

\* What separates the k-th block from the block before it: lines of a list
\* follow each other, a list follows its heading after a blank line, every
\* other block is a paragraph of its own; gaps and a final newline are
\* written as they are.
Separator(blocks, k) ==
    IF k = 1 \/ blocks[k] \in GapIds \cup {"nl"} \/ blocks[k - 1] \in GapIds THEN <<>>
    ELSE IF blocks[k] \in LineIds /\ blocks[k - 1] \notin HeadingIds THEN <<NL>>
    ELSE <<NL, NL>>

\* The docstring written from a sequence of blocks.
Render(blocks) == Concat([k \in 1..Len(blocks) |-> Separator(blocks, k) \o Body(blocks[k])])

SeqsUpTo(S, n) == UNION {[1..k -> S] : k \in 1..n}

Pres == {<<>>, <<"intro">>}

ArgumentsInputs ==
    {pre \o <<"h_args">> \o body \o post :
        pre \in Pres, body \in SeqsUpTo(BulletIds, MaxBullets), post \in {<<>>, <<"nl">>, <<"s_returns">>}}

ReturnsInputs ==
    {pre \o <<"h_returns">> \o body \o post :
        pre \in Pres, body \in {<<>>, <<"r_plain">>, <<"r_emph">>, <<"r_plain", "r_more">>},
        post \in {<<>>, <<"nl">>, <<"s_notes">>}}

ExamplesInputs ==
    {pre \o <<"h_examples">> \o body \o post :
        pre \in Pres, body \in {<<>>} \cup SeqsUpTo(ExampleIds, MaxFragments), post \in {<<>>, <<"s_notes">>}}

RaisesInputs ==
    {pre \o <<"h_raises">> \o body \o post :
        pre \in Pres, body \in {<<>>} \cup SeqsUpTo(RaiseIds, MaxLines), post \in {<<>>, <<"s_notes">>}}

NotesInputs ==
    {pre \o <<head>> \o body \o post :
        pre \in Pres, head \in {"h_notes", "h_note"}, body \in {<<>>, <<"n_text">>, <<"n_text", "r_more">>},
        post \in {<<>>, <<"s_raises">>}}

WarningsInputs ==
    {pre \o <<head>> \o body \o post :
        pre \in Pres, head \in {"h_warnings", "h_warning"}, body \in {<<>>, <<"n_text">>, <<"n_text", "r_more">>},
        post \in {<<>>, <<"s_raises">>}}

\* n fragments with a gap after each but the last.
Fragments == <<"f_py", "f_sh", "f_plain">>
WithGaps(gaps) ==
    Concat([k \in 1..(Len(gaps) + 1) |->
        <<Fragments[((k - 1) % 3) + 1]>> \o (IF k <= Len(gaps) THEN <<gaps[k]>> ELSE <<>>)])

\* The fragments may follow a fragment whose tag is not a word.
CodeBlockInputs ==
    {pre \o lead \o WithGaps(gaps) \o post :
        pre \in Pres, lead \in {<<>>, <<"f_cpp", "g1b">>},
        gaps \in SeqsUpTo(GapIds, MaxBlocks - 1), post \in {<<>>, <<"nl">>}}

\* The six sections in every order.
Orderings(S) == {p \in [1..Cardinality(S) -> S] : \A i, j \in DOMAIN p : i # j => p[i] # p[j]}

PipelineInputs == {<<"intro">> \o p : p \in Orderings(SectionIds)}

RuleCalls ==
    [_convert_arguments_to_mdc |-> ArgumentsInputs,
     _convert_returns_to_mdc |-> ReturnsInputs,
     _convert_examples_to_mdc |-> ExamplesInputs,
     _convert_notes_to_mdc |-> NotesInputs,
     _convert_warnings_to_mdc |-> WarningsInputs,
     _convert_raises_to_mdc |-> RaisesInputs,
     _convert_code_blocks_to_mdc |-> CodeBlockInputs]

\* The rule a call of one rewrite method runs.
FirstRule(method) ==
    CASE method = "_convert_arguments_to_mdc" -> "arguments"
      [] method = "_convert_returns_to_mdc" -> "returns"
      [] method = "_convert_examples_to_mdc" -> "examples"
      [] method = "_convert_notes_to_mdc" -> "notes"
      [] method = "_convert_warnings_to_mdc" -> "warnings"
      [] method = "_convert_raises_to_mdc" -> "raises"
      [] method = "_convert_code_blocks_to_mdc" -> "code_blocks"
      [] method = "_process_docstring_for_mdc" -> "arguments"

(***************************************************************************)
(* renderer.py: NuxtRenderer, the frontmatter of a page                    *)
(***************************************************************************)

VARIABLES
    default_frontmatter, \* NuxtRenderer.default_frontmatter
    page,                \* the NuxtPage being rendered: its title and its frontmatter
    modules,             \* the modules passed to the renderer
    frontmatter          \* the dictionary _build_frontmatter returns

\* The values of a YAML map: a string (as tokens), a boolean or a nested map.
Text(t) == [kind |-> "text", text |-> t]
Bool(b) == [kind |-> "bool", bool |-> b]
Map(m) == [kind |-> "map", map |-> m]
None == [kind |-> "none"]

\* {}
Empty == [k \in {} |-> None]

\* {**b, **a}: the first map wins.
Merge_FirstWins(a, b) == [k \in DOMAIN a \cup DOMAIN b |-> IF k \in DOMAIN a THEN a[k] ELSE b[k]]

\* {**a, **b}
Merge(a, b) == [k \in DOMAIN a \cup DOMAIN b |-> IF k \in DOMAIN b THEN b[k] ELSE a[k]]

\* d[key] = value
Put(d, key, value) == [k \in DOMAIN d \cup {key} |-> IF k = key THEN value ELSE d[k]]

\* The default of the field object_icons.
object_icons ==
    [module |-> <<"i-material-symbols-light-book-4-spark-outline-rounded">>,
     class |-> <<"i-material-symbols-light-class-outline-rounded">>,
     function |-> <<"i-material-symbols-light-function-outline-rounded">>,
     method |-> <<"i-material-symbols-light-function-outline-rounded">>,
     variable |-> <<"i-material-symbols-light-variable-outline-rounded">>,
     attribute |-> <<"i-material-symbols-light-variable-outline-rounded">>,
     page |-> <<"i-material-symbols-light-book-4-spark-outline-rounded">>]

\* modules[0] if len(modules) == 1 else None
PrimaryObject(mods) == IF Len(mods) = 1 THEN mods[1] ELSE None

\* The description is overwritten whatever the frontmatter holds.
_needs_description_Always(fm, primary_object) ==
    /\ primary_object # None
    /\ primary_object.docstring # None

_needs_description(fm, primary_object) ==
    /\ "description" \notin DOMAIN fm
    /\ primary_object # None
    /\ primary_object.docstring # None

\* docstring.split("\n", 1)[0]
FirstLine(text) == Slice(text, 1, FindTok(text, 1, NL) - 1)

\* The value assigned to frontmatter["description"].
DerivedDescription(primary_object) ==
    LET text == IF primary_object # None /\ primary_object.docstring # None
                THEN Strip(primary_object.docstring.content)
                ELSE <<>>
    IN Text(IF text # <<>> THEN FirstLine(text) ELSE <<>>)

\* The objects handed to the renderer are modules.
_get_icon_key(primary_object) ==
    IF primary_object = None THEN "page"
    ELSE IF primary_object.kind \in {"module", "class", "function", "variable"} THEN primary_object.kind
    ELSE "page"

_build_navigation(fm, primary_object) ==
    LET navigation_value == IF "navigation" \in DOMAIN fm THEN fm["navigation"] ELSE Map(Empty)
        navigation == IF navigation_value.kind = "map" THEN navigation_value.map ELSE Empty
        titled == IF "title" \notin DOMAIN navigation THEN Put(navigation, "title", fm["title"]) ELSE navigation
        icon_key == _get_icon_key(primary_object)
    IN Map(IF "icon" \notin DOMAIN titled
           THEN Put(titled, "icon", Text(Get(object_icons, icon_key, object_icons["page"])))
           ELSE titled)

\* The seo entry derived from the title and the description.
DerivedSeo(fm) ==
    Map([title |-> Text(fm["title"].text \o <<SP, DASH, SP, "Diseño", SP, "técnico">>),
         description |-> Get(fm, "description", Text(<<>>))])

_build_frontmatter(mods, pg) ==
    LET merged == Merge(default_frontmatter, pg.frontmatter)
        primary_object == PrimaryObject(mods)
        titled == IF "title" \notin DOMAIN merged THEN Put(merged, "title", Text(pg.title)) ELSE merged
        described == IF _needs_description(titled, primary_object)
                     THEN Put(titled, "description", DerivedDescription(primary_object))
                     ELSE titled
        navigated == IF "navigation" \in DOMAIN described /\ described["navigation"].kind = "map"
                     THEN Put(described, "navigation", _build_navigation(described, primary_object))
                     ELSE described
    IN IF "seo" \notin DOMAIN navigated THEN Put(navigated, "seo", DerivedSeo(navigated)) ELSE navigated

\* The maps that hold, for some of the keys, one of the values listed for the key.
Maps(choices) ==
    UNION {{m \in [keys -> UNION {choices[k] : k \in keys}] : \A k \in keys : m[k] \in choices[k]} :
        keys \in SUBSET DOMAIN choices}

DefaultFrontmatters ==
    Maps([layout |-> {Text(<<"docs">>)},
          navigation |-> {Bool(TRUE), Bool(FALSE), Map(Empty)},
          description |-> {Text(<<"shared", SP, "summary">>)}])

PageFrontmatters ==
    Maps([navigation |-> {Bool(TRUE), Bool(FALSE), Map(Empty),
                          Map([title |-> Text(<<"Menu">>)]),
                          Map([icon |-> Text(<<"i-star">>)]),
                          Map([title |-> Text(<<"Menu">>), icon |-> Text(<<"i-star">>)])},
          description |-> {Text(<<"x">>)},
          title |-> {Text(<<"Explicit">>)},
          seo |-> {Map([title |-> Text(<<"Own">>), description |-> Text(<<"own", SP, "words">>)])}])

Module(name, doc) == [kind |-> "module", name |-> name, docstring |-> doc]
Docstring(content) == [kind |-> "docstring", content |-> content]

ModuleLists ==
    {<<>>,
     <<Module("bare", None)>>,
     <<Module("blank", Docstring(<<>>))>>,
     <<Module("documented", Docstring(<<NL, SP, "Summary", SP, "line", ".", NL, NL, "More", SP, "text", ".", NL>>))>>,
     <<Module("bare", None), Module("documented", Docstring(<<"Other", ".">>))>>}

\* No page is being assembled.
NoPage ==
    /\ default_frontmatter = Empty
    /\ page = [title |-> <<>>, frontmatter |-> Empty]
    /\ modules = <<>>
    /\ frontmatter = Empty

page_vars == <<default_frontmatter, page, modules, frontmatter>>

VARIABLES
    args,   \* the arguments of a call of a function of utils.py or of the resolver
    result  \* the value the call returns, or the filenames resolved so far

\* No function is being called.
NoCall ==
    /\ args = <<>>
    /\ result = <<>>

call_vars == <<args, result>>

VARIABLES
    content_directory, \* NuxtRenderer.content_directory
    clean_render,      \* NuxtRenderer.clean_render
    pages,             \* NuxtRenderer.pages, the top-level pages in their configured order
    files,             \* the files on disk and what each of them holds
    manifest,          \* the names listed in the file of generated files under content_directory
    known_files,       \* the names the KnownFiles object of the running render has been given
    runs               \* the render calls so far: the configuration and the outcome of each

\* No render has been called and nothing is configured.
NoRender ==
    /\ content_directory = <<>>
    /\ clean_render = FALSE
    /\ pages = <<>>
    /\ files = Empty
    /\ manifest = <<>>
    /\ known_files = <<>>
    /\ runs = <<>>

render_vars == <<content_directory, clean_render, pages, files, manifest, known_files, runs>>

vars == <<given, mdc_components, call, docstring, processed, pc, page_vars, call_vars, render_vars>>

\* A call of one rewrite method on a docstring.
InitRules ==
    /\ call \in DOMAIN RuleCalls
    /\ given \in RuleCalls[call]
    /\ mdc_components \in {DefaultComponents, CustomComponents}
    /\ docstring = Render(given)
    /\ processed = docstring
    /\ pc = FirstRule(call)
    /\ NoPage
    /\ NoCall
    /\ NoRender

\* A call of _process_docstring_for_mdc on a docstring.
InitPipeline ==
    /\ call = "_process_docstring_for_mdc"
    /\ given \in PipelineInputs
    /\ mdc_components = DefaultComponents
    /\ docstring = Render(given)
    /\ processed = docstring
    /\ pc = FirstRule(call)
    /\ NoPage
    /\ NoCall
    /\ NoRender

\* The rule that runs after a rule: the next one of the pipeline, none after a single call.
After(rule) == IF call = "_process_docstring_for_mdc" THEN rule ELSE "done"

ConvertArguments ==
    /\ pc = "arguments"
    /\ processed' = _convert_section_to_mdc(processed, "Arguments", "arguments")
    /\ pc' = After("returns")
    /\ UNCHANGED <<given, mdc_components, call, docstring, page_vars, call_vars, render_vars>>

ConvertReturns ==
    /\ pc = "returns"
    /\ processed' = _convert_returns_to_mdc(processed)
    /\ pc' = After("examples")
    /\ UNCHANGED <<given, mdc_components, call, docstring, page_vars, call_vars, render_vars>>

ConvertExamples ==
    /\ pc = "examples"
    /\ processed' = _convert_examples_to_mdc(processed)
    /\ pc' = After("notes")
    /\ UNCHANGED <<given, mdc_components, call, docstring, page_vars, call_vars, render_vars>>

ConvertNotes ==
    /\ pc = "notes"
    /\ processed' = _convert_notes_to_mdc(processed)
    /\ pc' = After("warnings")
    /\ UNCHANGED <<given, mdc_components, call, docstring, page_vars, call_vars, render_vars>>

ConvertWarnings ==
    /\ pc = "warnings"
    /\ processed' = _convert_warnings_to_mdc(processed)
    /\ pc' = After("raises")
    /\ UNCHANGED <<given, mdc_components, call, docstring, page_vars, call_vars, render_vars>>

ConvertRaises ==
    /\ pc = "raises"
    /\ processed' = _convert_raises_to_mdc(processed)
    /\ pc' = After("code_blocks")
    /\ UNCHANGED <<given, mdc_components, call, docstring, page_vars, call_vars, render_vars>>

ConvertCodeBlocks ==
    /\ pc = "code_blocks"
    /\ processed' = _convert_code_blocks_to_mdc(processed)
    /\ pc' = "done"
    /\ UNCHANGED <<given, mdc_components, call, docstring, page_vars, call_vars, render_vars>>

NextRule ==
    \/ ConvertArguments
    \/ ConvertReturns
    \/ ConvertExamples
    \/ ConvertNotes
    \/ ConvertWarnings
    \/ ConvertRaises
    \/ ConvertCodeBlocks

SpecRules == InitRules /\ [][NextRule]_vars

SpecPipeline == InitPipeline /\ [][NextRule]_vars

(***************************************************************************)
(* _process_docstring_for_mdc called on a docstring and then on what it    *)
(* returned.                                                               *)
(***************************************************************************)

MaxDocBlocks == 3

\* What a docstring is written from: whole sections, headings with nothing
\* under them, paragraphs, fenced fragments and list lines.
DocBlocks ==
    SectionIds \cup {"h_returns", "h_examples", "h_notes", "h_raises"}
        \cup {"intro", "e_prose", "f_py", "f_sh", "x_value", "x_prose"}

ReprocessInputs == SeqsUpTo(DocBlocks, MaxDocBlocks)

\* The first call of _process_docstring_for_mdc; result holds what the calls returned so far.
InitReprocess ==
    /\ call = "_process_docstring_for_mdc"
    /\ given \in ReprocessInputs
    /\ mdc_components = DefaultComponents
    /\ docstring = Render(given)
    /\ processed = docstring
    /\ pc = FirstRule(call)
    /\ args = <<>>
    /\ result = <<>>
    /\ NoPage
    /\ NoRender

\* The call returned and its value is the docstring of a second call.
ProcessAgain ==
    /\ pc = "done"
    /\ call = "_process_docstring_for_mdc"
    /\ result = <<>>
    /\ result' = <<processed>>
    /\ docstring' = processed
    /\ pc' = FirstRule(call)
    /\ UNCHANGED <<given, mdc_components, call, processed, args, page_vars, render_vars>>

NextReprocess ==
    \/ NextRule
    \/ ProcessAgain

SpecReprocess == InitReprocess /\ [][NextReprocess]_vars

\* A call of _build_frontmatter for a page.
InitFrontmatter ==
    /\ call = "_build_frontmatter"
    /\ default_frontmatter \in DefaultFrontmatters
    /\ page \in [title : {<<"API">>}, frontmatter : PageFrontmatters]
    /\ modules \in ModuleLists
    /\ frontmatter = Empty
    /\ given = <<>>
    /\ mdc_components = DefaultComponents
    /\ docstring = <<>>
    /\ processed = <<>>
    /\ pc = "frontmatter"
    /\ NoCall
    /\ NoRender

BuildFrontmatter ==
    /\ pc = "frontmatter"
    /\ frontmatter' = _build_frontmatter(modules, page)
    /\ pc' = "done"
    /\ UNCHANGED <<given, mdc_components, call, docstring, processed, default_frontmatter, page, modules,
                   call_vars, render_vars>>

NextFrontmatter == BuildFrontmatter

SpecFrontmatter == InitFrontmatter /\ [][NextFrontmatter]_vars

(***************************************************************************)
(* renderer.py: NuxtRenderer, the frontmatter of the pages of one run.     *)
(* The maps are Python dicts: self.default_frontmatter and the frontmatter *)
(* of a page live on after _build_frontmatter returned, and a nested map   *)
(* they hold is the very dict the merged frontmatter holds.                *)
(***************************************************************************)

\* The title and the icon are written to navigation_value itself.
NavigationValueAfter_InPlace(navigation_value, navigation) == navigation

\* The dict navigation_value after _build_navigation returned navigation:
\* navigation = navigation_value.copy(), the title and the icon are written
\* to the copy and navigation_value keeps the entries it had.
NavigationValueAfter(navigation_value, navigation) == navigation_value

\* A map (self.default_frontmatter or page.frontmatter) after
\* _build_frontmatter returned for a page: {**a, **b} makes a new dict, so
\* no key of the map is assigned; merged tells that the navigation of the
\* merged frontmatter is the navigation dict of this map.
MapAfter(map, mods, pg, merged) ==
    IF merged /\ "navigation" \in DOMAIN map /\ map["navigation"].kind = "map"
    THEN Put(map, "navigation",
             Map(NavigationValueAfter(map["navigation"].map, _build_frontmatter(mods, pg)["navigation"].map)))
    ELSE map

\* The most pages of a run.
MaxAssembled == 2

\* Pages of two titles, without frontmatter and with a title, a boolean
\* navigation or a navigation map (empty, with a title) in it.
AssembledPages ==
    [title : {<<"API">>, <<"Guide">>},
     frontmatter : {Empty,
                    [title |-> Text(<<"Explicit">>)],
                    [navigation |-> Bool(TRUE)],
                    [navigation |-> Map(Empty)],
                    [navigation |-> Map([title |-> Text(<<"Menu">>)])]}]

\* The frontmatter of the pages of a run is assembled, one page after another.
InitAssembly ==
    /\ call = "_render_all_pages"
    /\ default_frontmatter \in DefaultFrontmatters
    /\ pages \in SeqsUpTo(AssembledPages, MaxAssembled)
    /\ modules \in {<<>>, <<Module("documented", Docstring(<<"Summary", ".">>))>>}
    /\ result = <<>>
    /\ pc = "assemble"
    /\ page = [title |-> <<>>, frontmatter |-> Empty]
    /\ frontmatter = Empty
    /\ args = <<>>
    /\ content_directory = <<"content">>
    /\ clean_render = FALSE
    /\ files = Empty
    /\ manifest = <<>>
    /\ known_files = <<>>
    /\ runs = <<>>
    /\ given = <<>>
    /\ mdc_components = DefaultComponents
    /\ docstring = <<>>
    /\ processed = <<>>

\* _build_frontmatter for the next page of the run.
AssembleFrontmatter ==
    /\ pc = "assemble"
    /\ LET pg == pages[Len(result) + 1]
       IN /\ result' = Append(result, _build_frontmatter(modules, pg))
          /\ default_frontmatter' = MapAfter(default_frontmatter, modules, pg,
                                             "navigation" \notin DOMAIN pg.frontmatter)
          /\ pages' = [pages EXCEPT ![Len(result) + 1].frontmatter = MapAfter(pg.frontmatter, modules, pg, TRUE)]
          /\ page' = pg
          /\ frontmatter' = _build_frontmatter(modules, pg)
    /\ pc' = IF Len(result) + 1 = Len(pages) THEN "done" ELSE "assemble"
    /\ UNCHANGED <<given, mdc_components, call, docstring, processed, modules, args,
                   content_directory, clean_render, files, manifest, known_files, runs>>

SpecAssembly == InitAssembly /\ [][AssembleFrontmatter]_vars

(***************************************************************************)
(* renderer.py: NuxtRenderer, the output file of a page                    *)
(***************************************************************************)

SLASH == "/"

\* os.path.join of two paths: an absolute second path replaces the first,
\* and a separator is put between them unless the first ends with one.
os_path_join(a, b) ==
    IF b # <<>> /\ Head(b) = SLASH THEN b
    ELSE IF a = <<>> \/ a[Len(a)] = SLASH THEN a \o b
    ELSE a \o <<SLASH>> \o b

\* Pages.iter_hierarchy: every page before its children, each with the chain of its parents.
RECURSIVE iter_hierarchy(_, _)
iter_hierarchy(page_list, parent_chain) ==
    IF page_list = <<>> THEN <<>>
    ELSE <<[page |-> Head(page_list), parents |-> parent_chain] >>
         \o iter_hierarchy(Head(page_list).children, Append(parent_chain, Head(page_list)))
         \o iter_hierarchy(Tail(page_list), parent_chain)

\* The directory of the page is ignored.
_get_page_filename_Flat(item, pg) ==
    os_path_join(content_directory, (IF pg.name # None THEN pg.name.text ELSE <<"index">>) \o pg.extension)

_get_page_filename(item, pg) ==
    LET name == IF pg.name # None THEN pg.name.text ELSE <<"index">>
    IN IF pg.directory # None /\ pg.directory.text # <<>>
       THEN os_path_join(os_path_join(content_directory, pg.directory.text), name \o pg.extension)
       ELSE os_path_join(content_directory, name \o pg.extension)

\* The most top-level pages of a configuration.
MaxPages == 2

\* The pages of a configuration. Pages without children: with and without a
\* name, a directory (none, empty, one component, two components) and with
\* either extension. Pages with one child page: the child with and without a
\* directory.
PageChoices ==
    [name : {None, Text(<<"api">>), Text(<<"index">>)},
     directory : {None, Text(<<>>), Text(<<"reference">>), Text(<<"api", SLASH, "v1">>)},
     extension : {<<".md">>, <<".mdx">>},
     children : {<<>>}]
    \cup
    [name : {Text(<<"guide">>), Text(<<"reference">>)},
     directory : {None},
     extension : {<<".md">>},
     children : {<<child>> : child \in [name : {Text(<<"api">>), Text(<<"index">>)},
                                        directory : {None, Text(<<"reference">>)},
                                        extension : {<<".md">>},
                                        children : {<<>>}]}]

\* No docstring is being rewritten.
NoDocstring ==
    /\ given = <<>>
    /\ mdc_components = DefaultComponents
    /\ docstring = <<>>
    /\ processed = <<>>

\* The filenames of the pages of a configuration are resolved, in the order of _render_all_pages.
InitPaths ==
    /\ call = "_get_page_filename"
    /\ content_directory \in {<<"content">>, <<SLASH, "site", SLASH, "content">>}
    /\ pages \in SeqsUpTo(PageChoices, MaxPages)
    /\ result = <<>>
    /\ pc = "filename"
    /\ args = <<>>
    /\ clean_render = FALSE
    /\ files = Empty
    /\ manifest = <<>>
    /\ known_files = <<>>
    /\ runs = <<>>
    /\ NoDocstring
    /\ NoPage

GetPageFilename ==
    /\ pc = "filename"
    /\ LET items == iter_hierarchy(pages, <<>>)
           item == items[Len(result) + 1]
       IN /\ result' = Append(result, _get_page_filename(item, item.page))
          /\ pc' = IF Len(result) + 1 = Len(items) THEN "done" ELSE "filename"
    /\ UNCHANGED <<given, mdc_components, call, docstring, processed, page_vars, args,
                   content_directory, clean_render, pages, files, manifest, known_files, runs>>

SpecPaths == InitPaths /\ [][GetPageFilename]_vars

(***************************************************************************)
(* renderer.py: NuxtRenderer.render, the files and the manifest            *)
(***************************************************************************)

\* The file intro.md is the only file in the directory of the context.
_read_source_content(pg) ==
    IF pg.source # None /\ pg.source.text = <<"intro", ".md">>
    THEN <<"Intro", SP, "text", ".", NL>>
    ELSE <<>>

\* The heading the Markdown renderer writes for each listed module that is
\* among the modules; the modules have no members.
_render_api_content(mods, pg) ==
    Concat([i \in DOMAIN pg.contents |->
              IF \E k \in DOMAIN mods : mods[k].name = pg.contents[i]
              THEN <<"#", SP, pg.contents[i], NL>>
              ELSE <<>>])

\* The separator is written also when one of the two parts is empty.
_combine_content_Always(source_content, api_content) ==
    source_content \o <<NL, NL>> \o api_content

_combine_content(source_content, api_content) ==
    IF source_content # <<>> /\ api_content # <<>>
    THEN source_content \o <<NL, NL>> \o api_content
    ELSE IF source_content # <<>> THEN source_content ELSE api_content

\* What _render_page writes to the file of the page: the frontmatter between
\* the two delimiter lines and, after a blank line, the content.
_render_page(mods, pg) ==
    [frontmatter |-> _build_frontmatter(mods, pg),
     content |-> _combine_content(_read_source_content(pg), _render_api_content(mods, pg))]

\* Nothing is removed.
_cleanup_files_Keep(on_disk, loaded) == on_disk

\* Every file is removed, recorded or not.
_cleanup_files_All(on_disk, loaded) == Empty

\* os.remove of every loaded name; a name that is not on disk is passed over.
_cleanup_files(on_disk, loaded) ==
    [name \in DOMAIN on_disk \ {loaded[i] : i \in DOMAIN loaded} |-> on_disk[name]]

\* The most render calls of a behaviour.
MaxRuns == 2

\* The page lists a renderer is configured with: pages with and without a
\* directory, a source file (present or missing) and contents, and a page
\* whose child resolves to the file of another page and has other contents.
Configurations ==
    LET P(name, directory, source, contents, children) ==
            [title |-> <<name>>, name |-> Text(<<name>>), directory |-> directory, extension |-> <<".md">>,
             source |-> source, contents |-> contents, frontmatter |-> Empty, children |-> children]
        Home == P("index", None, None, <<>>, <<>>)
        Api == P("api", Text(<<"reference">>), None, <<"documented">>, <<>>)
        Guide == P("guide", None, Text(<<"intro", ".md">>), <<"documented">>, <<>>)
        Lost == P("lost", None, Text(<<"missing", ".md">>), <<"documented">>, <<>>)
        Bare == P("bare", None, Text(<<"missing", ".md">>), <<>>, <<>>)
        Index == P("index", None, None, <<"documented">>, <<>>)
        Section == P("section", None, None, <<>>, <<Index>>)
    IN {<<>>, <<Home>>, <<Home, Api>>, <<Lost, Bare, Guide>>, <<Home, Section>>}

\* A renderer for the content directory content; a file the user wrote is in it.
InitRender ==
    /\ call = "render"
    /\ pc = "idle"
    /\ content_directory = <<"content">>
    /\ clean_render = TRUE
    /\ pages = <<>>
    /\ files = Put(Empty, <<"content", SLASH, "notes", ".md">>, [content |-> <<"user">>])
    /\ manifest = <<>>
    /\ known_files = <<>>
    /\ runs = <<>>
    /\ default_frontmatter = [layout |-> Text(<<"docs">>)]
    /\ modules = <<Module("documented", Docstring(<<"Summary", ".">>))>>
    /\ page = [title |-> <<>>, frontmatter |-> Empty]
    /\ frontmatter = Empty
    /\ NoDocstring
    /\ NoCall

\* render is called on the renderer, configured with a page list and
\* clean_render: the content directory is made and the KnownFiles object
\* created. The history runs keeps, for every call, what the call was
\* configured with and, for a call that follows a returned call with nothing
\* in between, the output directory it found: the one that call left.
StartRender ==
    /\ pc \in {"idle", "returned", "raised"}
    /\ Len(runs) < MaxRuns
    /\ \E configured \in Configurations, clean \in BOOLEAN :
         /\ pages' = configured
         /\ clean_render' = clean
         /\ runs' = Append(runs, [pages |-> configured, clean_render |-> clean,
                                  not_found |-> {}, outcome |-> "running",
                                  found |-> IF pc = "returned"
                                            THEN [files |-> files, manifest |-> manifest]
                                            ELSE None])
         /\ pc' = IF clean THEN "cleanup" ELSE "pages"
    /\ known_files' = <<>>
    /\ UNCHANGED <<given, mdc_components, call, docstring, processed, page_vars, call_vars,
                   content_directory, files, manifest>>

\* _cleanup_files on the names known_files.load() reads from the manifest;
\* not_found are the names os.remove raised FileNotFoundError for.
CleanupFiles ==
    /\ pc = "cleanup"
    /\ files' = _cleanup_files(files, manifest)
    /\ runs' = [runs EXCEPT ![Len(runs)].not_found =
                    {manifest[i] : i \in DOMAIN manifest} \ DOMAIN files]
    /\ pc' = "pages"
    /\ UNCHANGED <<given, mdc_components, call, docstring, processed, page_vars, call_vars,
                   content_directory, clean_render, pages, manifest, known_files>>

\* A file that is on disk already is not written again.
RenderPage_KeepsExisting ==
    /\ pc = "pages"
    /\ Len(known_files) < Len(iter_hierarchy(pages, <<>>))
    /\ LET item == iter_hierarchy(pages, <<>>)[Len(known_files) + 1]
           filename == _get_page_filename(item, item.page)
       IN /\ files' = IF filename \in DOMAIN files THEN files
                      ELSE Put(files, filename, _render_page(modules, item.page))
          /\ known_files' = Append(known_files, filename)
    /\ UNCHANGED <<given, mdc_components, call, docstring, processed, page_vars, call_vars,
                   content_directory, clean_render, pages, manifest, runs, pc>>

\* The file of the page is opened for appending: what a file holds already stays in front.
RenderPage_Append ==
    /\ pc = "pages"
    /\ Len(known_files) < Len(iter_hierarchy(pages, <<>>))
    /\ LET item == iter_hierarchy(pages, <<>>)[Len(known_files) + 1]
           filename == _get_page_filename(item, item.page)
           written == _render_page(modules, item.page)
       IN /\ files' = Put(files, filename,
                          IF filename \in DOMAIN files
                          THEN [frontmatter |-> written.frontmatter,
                                content |-> files[filename].content \o written.content]
                          ELSE written)
          /\ known_files' = Append(known_files, filename)
    /\ UNCHANGED <<given, mdc_components, call, docstring, processed, page_vars, call_vars,
                   content_directory, clean_render, pages, manifest, runs, pc>>

\* One turn of the loop of _render_all_pages: the page is written and its filename recorded.
RenderPage ==
    /\ pc = "pages"
    /\ Len(known_files) < Len(iter_hierarchy(pages, <<>>))
    /\ LET item == iter_hierarchy(pages, <<>>)[Len(known_files) + 1]
           filename == _get_page_filename(item, item.page)
       IN /\ files' = Put(files, filename, _render_page(modules, item.page))
          /\ known_files' = Append(known_files, filename)
    /\ UNCHANGED <<given, mdc_components, call, docstring, processed, page_vars, call_vars,
                   content_directory, clean_render, pages, manifest, runs, pc>>

\* The files written so far in the run are removed before the error leaves render.
RenderPageRaises_Rollback ==
    /\ pc = "pages"
    /\ Len(known_files) < Len(iter_hierarchy(pages, <<>>))
    /\ files' = _cleanup_files(files, known_files)
    /\ manifest' \in {manifest, known_files}
    /\ runs' = [runs EXCEPT ![Len(runs)].outcome = "raised"]
    /\ pc' = "raised"
    /\ UNCHANGED <<given, mdc_components, call, docstring, processed, page_vars, call_vars,
                   content_directory, clean_render, pages, known_files>>

\* os.makedirs or open raises in _render_page: the error leaves render
\* through the with block. Whether KnownFiles then writes the names recorded
\* so far to the manifest is not decided by renderer.py.
RenderPageRaises ==
    /\ pc = "pages"
    /\ Len(known_files) < Len(iter_hierarchy(pages, <<>>))
    /\ manifest' \in {manifest, known_files}
    /\ runs' = [runs EXCEPT ![Len(runs)].outcome = "raised"]
    /\ pc' = "raised"
    /\ UNCHANGED <<given, mdc_components, call, docstring, processed, page_vars, call_vars,
                   content_directory, clean_render, pages, files, known_files>>

\* The with block ends after the last page: the recorded names become the manifest.
SaveKnownFiles ==
    /\ pc = "pages"
    /\ Len(known_files) = Len(iter_hierarchy(pages, <<>>))
    /\ manifest' = known_files
    /\ runs' = [runs EXCEPT ![Len(runs)].outcome = "returned"]
    /\ pc' = "returned"
    /\ UNCHANGED <<given, mdc_components, call, docstring, processed, page_vars, call_vars,
                   content_directory, clean_render, pages, files, known_files>>

\* After a render call somebody removes a file of the content directory.
RemoveFile ==
    /\ pc \in {"returned", "raised"}
    /\ \E name \in DOMAIN files : files' = [other \in DOMAIN files \ {name} |-> files[other]]
    /\ pc' = "idle"
    /\ UNCHANGED <<given, mdc_components, call, docstring, processed, page_vars, call_vars,
                   content_directory, clean_render, pages, manifest, known_files, runs>>

NextRender ==
    \/ StartRender
    \/ CleanupFiles
    \/ RenderPage
    \/ RenderPageRaises
    \/ SaveKnownFiles
    \/ RemoveFile

SpecRender == InitRender /\ [][NextRender]_vars

(***************************************************************************)
(* utils.py: _convert_to_kebab_case on its own                             *)
(***************************************************************************)

\* The longest component name that is built from the letters.
MaxName == 4

\* Component names: every name of up to MaxName characters over two
\* upper-case letters, two lower-case letters, a digit, the underscore and
\* the dash, and three names of the documentation.
InitKebab ==
    /\ call = "_convert_to_kebab_case"
    /\ args \in [component_name : SeqsUpTo({"U", "A", "c", "g", "1", "_", DASH}, MaxName)
                                    \cup {UCodeGroup, UAlert, <<"u", DASH, "a", "l", "e", "r", "t">>}]
    /\ result = <<>>
    /\ pc = "kebab"
    /\ NoDocstring
    /\ NoPage
    /\ NoRender

ConvertToKebabCase ==
    /\ pc = "kebab"
    /\ result' = _convert_to_kebab_case(args.component_name)
    /\ pc' = "done"
    /\ UNCHANGED <<given, mdc_components, call, docstring, processed, page_vars, args, render_vars>>

SpecKebab == InitKebab /\ [][ConvertToKebabCase]_vars

(***************************************************************************)
(* renderer.py: NuxtContentResolver                                        *)
(***************************************************************************)

\* base_path.strip("/")
StripSlashes(s) ==
    Slice(s, First(LAMBDA k : s[k] # SLASH, 1, Len(s)), Last(LAMBDA k : s[k] # SLASH, Len(s)))

\* resolve_ref of the resolver made by NuxtContentResolver(base_path).
resolve_ref(base_path, scope, ref) ==
    LET ref_path == [k \in DOMAIN ref |-> IF ref[k] = "." THEN SLASH ELSE ref[k]]
    IN Lower(os_path_join(os_path_join(<<SLASH>>, StripSlashes(base_path)), ref_path))

\* The longest reference.
MaxRef == 4

\* References of up to MaxRef characters over a lower-case letter, an
\* upper-case letter and the dot, resolved in the scope of a module or of no
\* object, by resolvers made with an empty base path, a slash, a plain base
\* path and a base path of two components with slashes around it.
InitResolver ==
    /\ call = "resolve_ref"
    /\ args \in [base_path : {<<>>, <<SLASH>>, <<"d">>, <<SLASH, "d", SLASH, "A", SLASH>>},
                 scope : {None, Module("documented", None)},
                 ref : SeqsUpTo({"m", "C", "."}, MaxRef)]
    /\ result = <<>>
    /\ pc = "resolve"
    /\ NoDocstring
    /\ NoPage
    /\ NoRender

ResolveRef ==
    /\ pc = "resolve"
    /\ result' = resolve_ref(args.base_path, args.scope, args.ref)
    /\ pc' = "done"
    /\ UNCHANGED <<given, mdc_components, call, docstring, processed, page_vars, args, render_vars>>

SpecResolver == InitResolver /\ [][ResolveRef]_vars

(***************************************************************************)
(* renderer.py: NuxtRenderer.get_resolver                                  *)
(***************************************************************************)

\* Path(path).parts of a path without two slashes in a row at its start: the
\* root when the path starts with a slash, then the names between the
\* slashes, without the empty ones and without the dots.
PathParts(path) ==
    LET cuts == <<0>> \o SelectSeq([k \in 1..Len(path) |-> k], LAMBDA k : path[k] = SLASH) \o <<Len(path) + 1>>
        names == [i \in 1..(Len(cuts) - 1) |-> Slice(path, cuts[i] + 1, cuts[i + 1] - 1)]
    IN (IF path # <<>> /\ Head(path) = SLASH THEN <<<<SLASH>>>> ELSE <<>>)
       \o SelectSeq(names, LAMBDA name : name # <<>> /\ name # <<".">>)

RECURSIVE posixpath_join(_)
\* posixpath.join(*parts) of one part or more; it has no value without a
\* part, the call raises TypeError.
posixpath_join(parts) ==
    IF Len(parts) = 1 THEN parts[1]
    ELSE os_path_join(posixpath_join(SubSeq(parts, 1, Len(parts) - 1)), parts[Len(parts)])

\* get_resolver of a renderer with the content directory: the resolver it
\* returns, or the exception the call ends with.
get_resolver(directory) ==
    With(PathParts(directory), LAMBDA parts :
        IF parts # <<>> /\ Lower(parts[1]) = <<"c", "o", "n", "t", "e", "n", "t">>
        THEN IF Tail(parts) = <<>>
             THEN [raised |-> "TypeError"]
             ELSE [base_path |-> StripSlashes(posixpath_join(Tail(parts)))]
        ELSE [base_path |-> StripSlashes(directory)])

\* The most names of a content directory.
MaxParts == 3

\* Content directories of up to MaxParts names, with or without a slash
\* before and after them, and the empty one; NuxtRenderer() has content.
InitGetResolver ==
    /\ call = "get_resolver"
    /\ \E lead \in {<<>>, <<SLASH>>}, trail \in {<<>>, <<SLASH>>},
          names \in {<<>>} \cup SeqsUpTo({<<"c", "o", "n", "t", "e", "n", "t">>, <<"C", "o", "n", "t", "e", "n", "t">>,
                                         <<"d", "o", "c", "s">>, <<"a", "p", "i">>, <<".">>}, MaxParts) :
            content_directory =
                IF names = <<>> THEN <<>>
                ELSE lead \o Concat([k \in 1..Len(names) |-> (IF k > 1 THEN <<SLASH>> ELSE <<>>) \o names[k]]) \o trail
    /\ args = <<>>
    /\ result = <<>>
    /\ pc = "get_resolver"
    /\ clean_render = FALSE
    /\ pages = <<>>
    /\ files = Empty
    /\ manifest = <<>>
    /\ known_files = <<>>
    /\ runs = <<>>
    /\ given = <<>>
    /\ mdc_components = DefaultComponents
    /\ docstring = <<>>
    /\ processed = <<>>
    /\ NoPage

GetResolver ==
    /\ pc = "get_resolver"
    /\ result' = get_resolver(content_directory)
    /\ pc' = IF "raised" \in DOMAIN get_resolver(content_directory) THEN "raised" ELSE "done"
    /\ UNCHANGED <<given, mdc_components, call, docstring, processed, page_vars, args,
                   content_directory, clean_render, pages, files, manifest, known_files, runs>>

SpecGetResolver == InitGetResolver /\ [][GetResolver]_vars

(***************************************************************************)
(* utils.py: generate_api_breadcrumbs                                      *)
(***************************************************************************)

\* module_path.split("."): the parts between the dots, empty parts included.
split(s) ==
    LET dots == <<0>> \o SelectSeq([k \in 1..Len(s) |-> k], LAMBDA k : s[k] = ".") \o <<Len(s) + 1>>
    IN [i \in 1..(Len(dots) - 1) |-> Slice(s, dots[i] + 1, dots[i + 1] - 1)]

generate_api_breadcrumbs(module_path, base_url) ==
    LET parts == split(module_path)
        current_path(i) == base_url \o Concat([j \in 1..i |-> <<SLASH>> \o parts[j]])
    IN [i \in 1..Len(parts) |->
          IF i = Len(parts)
          THEN [title |-> parts[i]]
          ELSE [title |-> parts[i], to |-> current_path(i)]]

\* The longest module path, in names and dots.
MaxPath == 5

\* Module paths of up to MaxPath names and dots, and the path of the
\* documentation; the base URL is /docs or empty.
InitBreadcrumbs ==
    /\ call = "generate_api_breadcrumbs"
    /\ args \in [module_path : SeqsUpTo({"mypackage", "core", "."}, MaxPath)
                                 \cup {<<"mypackage", ".", "core", ".", "DataProcessor">>},
                 base_url : {<<SLASH, "docs">>, <<>>}]
    /\ result = <<>>
    /\ pc = "breadcrumbs"
    /\ NoDocstring
    /\ NoPage
    /\ NoRender

GenerateApiBreadcrumbs ==
    /\ pc = "breadcrumbs"
    /\ result' = generate_api_breadcrumbs(args.module_path, args.base_url)
    /\ pc' = "done"
    /\ UNCHANGED <<given, mdc_components, call, docstring, processed, page_vars, args, render_vars>>

SpecBreadcrumbs == InitBreadcrumbs /\ [][GenerateApiBreadcrumbs]_vars

(***************************************************************************)
(* Properties of the rewrite rules.                                        *)
(***************************************************************************)

\* The blocks of the given docstring that belong to a set of ids, in order.
Given(ids) == SelectSeq(given, LAMBDA id : id \in ids)

\* The call of one rewrite method has returned.
Returned(method) == call = method /\ pc = "done"

ArgumentsComponent == Get(mdc_components, "arguments", UArguments)

\* The entry the documentation promises for a well-formed bullet.
PromisedItem(id) ==
    CASE id = "b_plain" -> [name |-> <<"alpha">>, type |-> <<>>, content |-> <<"first">>]
      [] id = "b_typed" -> [name |-> <<"beta">>, type |-> <<"str">>, content |-> <<"second", SP, "value">>]
      [] id = "b_spaced" -> [name |-> <<"gamma">>, type |-> <<"map", "[", "k", COLON, SP, "v", "]">>,
                             content |-> <<"third">>]

\* C1: when an Arguments section has a body line that is not a well-formed
\* bullet, at any position, the rewrite leaves the section as it was: the
\* heading and every body line are still in the output and no arguments
\* component is emitted.
C1_ConservativeArguments ==
    (Returned("_convert_arguments_to_mdc") /\ \E k \in DOMAIN given : given[k] = "b_bare")
        => /\ Contains(processed, Heading("Arguments"))
           /\ \A k \in DOMAIN given : given[k] \in BulletIds => Contains(processed, Body(given[k]))
           /\ ~Contains(processed, OpenMarker(ArgumentsComponent))

\* C2: an Arguments section of n well-formed bullets becomes exactly one
\* arguments component with n entries in the order of the bullets, each with
\* the name before the first colon of the backticked text, the type after it
\* (empty without a colon), both trimmed, and the description as content.
C2_WellFormedArguments ==
    (Returned("_convert_arguments_to_mdc") /\ \A k \in DOMAIN given : given[k] # "b_bare")
        => LET bullets == Given(BulletIds)
               promised == [k \in 1..Len(bullets) |-> PromisedItem(bullets[k])]
           IN /\ Occurrences(processed, OpenMarker(ArgumentsComponent)) = 1
              /\ Contains(processed, create_mdc_arguments(promised, ArgumentsComponent))

\* Three well-formed bullets, one of them with two colons in its backticked
\* text, have been rewritten.
C2_Witness ==
    /\ Returned("_convert_arguments_to_mdc")
    /\ Given(BulletIds) = <<"b_plain", "b_spaced", "b_typed">>
    /\ Contains(processed, OpenMarker(ArgumentsComponent))

\* C3: whatever the order of the six well-formed sections in the docstring,
\* the output of the whole pipeline contains the opening marker of each of
\* the six configured components and none of the six bolded headings.
C3_SectionOrderingIndependence ==
    (call = "_process_docstring_for_mdc" /\ pc = "done")
        => /\ \A key \in {"arguments", "returns", "examples", "notes", "warnings", "raises"} :
                Contains(processed, OpenMarker(mdc_components[key]))
           /\ \A name \in {"Arguments", "Returns", "Examples", "Notes", "Warnings", "Raises"} :
                ~Contains(processed, Heading(name))

\* A component block opens with :: and a component name at the start of a line.
OpensAt(s, i) ==
    /\ StartsWith(s, i, CloseMarker)
    /\ i + 2 <= Len(s)
    /\ IsWord(s[i + 2])
    /\ (i = 1 \/ s[i - 1] = NL)

\* A component block closes with a bare :: at the start of a line.
ClosesAt(s, j) ==
    /\ StartsWith(s, j, CloseMarker)
    /\ j > 1
    /\ s[j - 1] = NL
    /\ (j + 2 > Len(s) \/ ~IsWord(s[j + 2]))

RECURSIVE ComponentBlocks(_, _)
\* The component blocks of a text that are not inside another block, from index i on.
ComponentBlocks(s, i) ==
    LET o == First(LAMBDA k : OpensAt(s, k), i, Len(s))
        c == First(LAMBDA k : ClosesAt(s, k), o + 1, Len(s))
    IN IF o > Len(s) \/ c > Len(s) THEN {}
       ELSE {SubSeq(s, o, c + 1)} \cup ComponentBlocks(s, c + 2)

\* C4: no section rule of the pipeline matches, encloses or alters what an
\* earlier rule emitted: every component block of the text before a section
\* rule runs is a component block of the text after it, unchanged and not
\* inside another block.
C4_LaterRulesKeepEarlierOutput ==
    [][(call = "_process_docstring_for_mdc" /\ pc # "code_blocks")
         => ComponentBlocks(processed, 1) \subseteq ComponentBlocks(processed', 1)]_vars

\* C5: when the body of a Raises section has a line that is not of the shape
\* of an exception bullet, the rewrite leaves the heading and the whole body
\* untouched: no line is converted and no line is removed.
C5_ConservativeRaises ==
    (Returned("_convert_raises_to_mdc") /\ \E k \in DOMAIN given : given[k] = "x_prose")
        => /\ Contains(processed, Heading("Raises"))
           /\ \A k \in DOMAIN given : given[k] \in RaiseIds => Contains(processed, Body(given[k]))
           /\ ~Contains(processed, OpenMarker(Get(mdc_components, "raises", UCallout)))

\* C6: a Returns heading followed by a blank line and any free-text body,
\* emphasis markup included, is replaced by exactly one returns component
\* whose content is that body, and the heading is gone from the output.
C6_ReturnsRewrite ==
    Returned("_convert_returns_to_mdc")
        => LET body == Render(Given({"r_plain", "r_emph", "r_more"}))
               component == Get(mdc_components, "returns", UReturns)
           IN /\ ~Contains(processed, Heading("Returns"))
              /\ Occurrences(processed, OpenMarker(component)) = 1
              /\ Contains(processed, OpenMarker(component) \o <<NL>> \o body \o <<NL>> \o CloseMarker)

FragmentIds == ExampleIds \ {"e_prose"}

\* The entry of a code group the documentation promises for a fenced fragment:
\* its own tag (text without one) as language and as label, and its code.
PromisedBlock(id) ==
    CASE id = "f_py" -> [language |-> <<"python">>, filename |-> <<"python">>, code |-> <<"x", SP, "=", SP, "one">>]
      [] id = "f_sh" -> [language |-> <<"bash">>, filename |-> <<"bash">>, code |-> <<"ls">>]
      [] id = "f_plain" -> [language |-> <<"text">>, filename |-> <<"text">>, code |-> <<"output">>]
      [] id = "f_cpp" -> [language |-> <<"c", "+", "+">>, filename |-> <<"c", "+", "+">>, code |-> <<"y">>]
      [] id = "f_empty" -> [language |-> <<"text">>, filename |-> <<"text">>, code |-> <<>>]

\* C7: an Examples section with k >= 1 fenced fragments is replaced by a
\* single code group with exactly those k fragments in order, each with its
\* own tag (text without one) as language and label; without a fragment the
\* heading and the body stay plain Markdown and no component is emitted.
C7_ExamplesRewrite ==
    Returned("_convert_examples_to_mdc")
        => LET fragments == Given(FragmentIds)
               promised == [k \in 1..Len(fragments) |-> PromisedBlock(fragments[k])]
               component == Get(mdc_components, "examples", UCodeGroup)
           IN IF fragments # <<>>
              THEN /\ Occurrences(processed, OpenMarker(component)) = 1
                   /\ Contains(processed, create_mdc_code_group(promised, component))
              ELSE /\ Contains(processed, Heading("Examples"))
                   /\ Contains(processed, Body("e_prose"))
                   /\ ~Contains(processed, OpenMarker(component))

\* The lines between two fenced blocks that a gap puts there.
LinesBetween(gap) == Occurrences(Body(gap), <<NL>>) - 1

\* C8: two consecutive fenced blocks are in the same group whenever at most
\* two lines lie between them and are left as independent unconverted blocks
\* when more than two lines lie between them; a block alone in its group
\* is not wrapped.
C8_GroupingThreshold ==
    Returned("_convert_code_blocks_to_mdc")
        => LET blocks == Given(FragmentIds)
               gaps == Given(GapIds)
               Near(k) == k \in DOMAIN gaps /\ LinesBetween(gaps[k]) <= 2
           IN /\ \A k \in DOMAIN gaps :
                    Near(k) <=> Contains(processed, CodeGroupEntry(PromisedBlock(blocks[k]))
                                                    \o CodeGroupEntry(PromisedBlock(blocks[k + 1])))
              /\ \A k \in DOMAIN blocks :
                    (~Near(k - 1) /\ ~Near(k)) => Contains(processed, Body(blocks[k]))

(***************************************************************************)
(* Properties of the frontmatter of a page.                                *)
(***************************************************************************)

\* A value is a navigation map: the entry the renderer completes.
IsNavigationMap(key, value) == key = "navigation" /\ value.kind = "map"

\* C9 as stated: the assembled frontmatter has, for each key of the page
\* frontmatter, the value of the page, and for each key that only the default
\* frontmatter has, the value of the default.
C9_MergePrecedence_AsStated ==
    Returned("_build_frontmatter")
        => /\ \A key \in DOMAIN page.frontmatter : frontmatter[key] = page.frontmatter[key]
           /\ \A key \in DOMAIN default_frontmatter \ DOMAIN page.frontmatter :
                frontmatter[key] = default_frontmatter[key]

\* The value of a key in the assembled frontmatter is the supplied one; a
\* supplied navigation map keeps its entries and has a title and an icon.
Carried(key, value) ==
    IF IsNavigationMap(key, value)
    THEN /\ frontmatter[key].kind = "map"
         /\ DOMAIN frontmatter[key].map = DOMAIN value.map \cup {"title", "icon"}
         /\ \A entry \in DOMAIN value.map : frontmatter[key].map[entry] = value.map[entry]
    ELSE frontmatter[key] = value

\* C9: the assembled frontmatter has, for each key of the page frontmatter,
\* the value of the page, and for each key that only the default frontmatter
\* has, the value of the default, except that a navigation value that is a
\* map keeps its own entries and is completed with a title and an icon.
C9_MergePrecedence ==
    Returned("_build_frontmatter")
        => /\ \A key \in DOMAIN page.frontmatter : Carried(key, page.frontmatter[key])
           /\ \A key \in DOMAIN default_frontmatter \ DOMAIN page.frontmatter :
                Carried(key, default_frontmatter[key])

\* The page overrides the navigation and the description of the defaults,
\* its navigation is a map with a title only, and the layout comes from the
\* defaults.
C9_Witness ==
    /\ Returned("_build_frontmatter")
    /\ {"layout", "navigation", "description"} \subseteq DOMAIN default_frontmatter
    /\ {"navigation", "description"} \subseteq DOMAIN page.frontmatter
    /\ default_frontmatter["navigation"] = Bool(TRUE)
    /\ page.frontmatter["navigation"] = Map([title |-> Text(<<"Menu">>)])
    /\ frontmatter["description"] = Text(<<"x">>)
    /\ frontmatter["layout"] = Text(<<"docs">>)

\* The first line of the docstring of a module, by the name of the module.
PromisedSummary(name) ==
    CASE name = "documented" -> <<"Summary", SP, "line", ".">>
      [] name = "blank" -> <<>>

\* C10: a title, a description, a seo entry or a boolean navigation that the
\* merged default and page frontmatter supplies is carried exactly; the title
\* (the title of the page), the description (first line of the docstring of
\* the primary object) and the seo entry (from title and description) are
\* derived only when the key is absent from the merged map.
C10_DerivationKeepsExplicit ==
    Returned("_build_frontmatter")
        => LET merged == Merge(default_frontmatter, page.frontmatter)
           IN /\ \A key \in {"title", "description", "seo"} \cap DOMAIN merged :
                    frontmatter[key] = merged[key]
              /\ ("navigation" \in DOMAIN merged /\ merged["navigation"].kind = "bool")
                    => frontmatter["navigation"] = merged["navigation"]
              /\ "title" \notin DOMAIN merged => frontmatter["title"] = Text(page.title)
              /\ ("description" \notin DOMAIN merged /\ "description" \in DOMAIN frontmatter)
                    => /\ Len(modules) = 1
                       /\ frontmatter["description"] = Text(PromisedSummary(modules[1].name))
              /\ "seo" \notin DOMAIN merged
                    => /\ frontmatter["seo"].kind = "map"
                       /\ frontmatter["seo"].map["title"] =
                            Text(frontmatter["title"].text \o <<SP, DASH, SP, "Diseño", SP, "técnico">>)
                       /\ frontmatter["seo"].map["description"] = Get(frontmatter, "description", Text(<<>>))

\* The page supplies title, description, seo and a boolean navigation, and
\* the only module has a docstring a description could be derived from.
C10_Witness ==
    /\ Returned("_build_frontmatter")
    /\ DOMAIN page.frontmatter = {"title", "description", "seo", "navigation"}
    /\ page.frontmatter["navigation"] = Bool(FALSE)
    /\ Len(modules) = 1
    /\ modules[1].name = "documented"
    /\ frontmatter["description"] = Text(<<"x">>)
    /\ frontmatter["navigation"] = Bool(FALSE)

\* The icon configured for the kind of the primary object of the modules.
ConfiguredIcon(mods) == Text(Get(object_icons, _get_icon_key(PrimaryObject(mods)), object_icons["page"]))

\* C11: unless the merged navigation value is a boolean, the assembled
\* frontmatter has a navigation map whose title is the declared title of the
\* page and whose icon is the icon configured for the kind of the primary
\* object; so it is when the explicit navigation map lacks these keys and
\* when no navigation key is supplied at all, and the keys of an explicit
\* navigation map keep their values.
C11_NavigationDerivation ==
    Returned("_build_frontmatter")
        => LET merged == Merge(default_frontmatter, page.frontmatter)
               explicit == IF "navigation" \in DOMAIN merged THEN merged["navigation"].map ELSE Empty
           IN ~("navigation" \in DOMAIN merged /\ merged["navigation"].kind = "bool")
                => /\ "navigation" \in DOMAIN frontmatter
                   /\ frontmatter["navigation"].kind = "map"
                   /\ \A key \in DOMAIN explicit : frontmatter["navigation"].map[key] = explicit[key]
                   /\ "title" \notin DOMAIN explicit
                        => frontmatter["navigation"].map["title"] = Text(page.title)
                   /\ "icon" \notin DOMAIN explicit
                        => frontmatter["navigation"].map["icon"] = ConfiguredIcon(modules)

\* The page has a directory override that is not empty.
HasDirectory(pg) == pg.directory # None /\ pg.directory.text # <<>>

\* C12: a named page with a non-empty directory override is written to
\* <content_directory>/<directory>/<name><extension>, and a named top-level
\* page without an override to <content_directory>/<name><extension>.
C12_DirectoryOverride ==
    Returned("_get_page_filename")
        => \A i \in DOMAIN result :
             LET item == iter_hierarchy(pages, <<>>)[i]
                 pg == item.page
             IN pg.name # None
                  => /\ HasDirectory(pg)
                          => result[i] = content_directory \o <<SLASH>> \o pg.directory.text
                                            \o <<SLASH>> \o pg.name.text \o pg.extension
                     /\ (~HasDirectory(pg) /\ item.parents = <<>>)
                          => result[i] = content_directory \o <<SLASH>> \o pg.name.text \o pg.extension

\* The page api of the directory reference and the top-level page index,
\* both with the default extension, under the content directory content.
C12_Witness ==
    /\ Returned("_get_page_filename")
    /\ content_directory = <<"content">>
    /\ pages = <<[name |-> Text(<<"api">>), directory |-> Text(<<"reference">>),
                  extension |-> <<".md">>, children |-> <<>>],
                 [name |-> Text(<<"index">>), directory |-> None,
                  extension |-> <<".md">>, children |-> <<>>]>>
    /\ result = <<<<"content", SLASH, "reference", SLASH, "api", ".md">>, <<"content", SLASH, "index", ".md">> >>

\* C13: two pages without a directory override that have the same name and
\* are nested under different parent pages resolve to different output paths.
C13_PathFromHierarchy ==
    Returned("_get_page_filename")
        => \A i, j \in DOMAIN result :
             LET a == iter_hierarchy(pages, <<>>)[i]
                 b == iter_hierarchy(pages, <<>>)[j]
             IN (/\ a.parents # <<>>
                 /\ b.parents # <<>>
                 /\ a.parents # b.parents
                 /\ ~HasDirectory(a.page)
                 /\ ~HasDirectory(b.page)
                 /\ a.page.name = b.page.name)
                  => result[i] # result[j]

(***************************************************************************)
(* Properties of render.                                                   *)
(***************************************************************************)

\* The hierarchy items of the configured pages, in the order they are rendered.
Items == iter_hierarchy(pages, <<>>)

\* The output paths of the pages of a page list.
OutputPaths(page_list) ==
    {_get_page_filename(item, item.page) :
        item \in {iter_hierarchy(page_list, <<>>)[i] : i \in DOMAIN iter_hierarchy(page_list, <<>>)}}

\* The files on disk that a render wrote: they hold a frontmatter.
Generated == {name \in DOMAIN files : "frontmatter" \in DOMAIN files[name]}

\* The names of a sequence of names.
Names(list) == {list[i] : i \in DOMAIN list}

\* C14: when every render call so far had clean_render set, returned, and had
\* pages that resolve to distinct paths, then after the call the generated
\* files on disk are exactly the output paths of the pages of that call and
\* the manifest lists exactly those paths, each once: the file of a page that
\* was removed from the configuration is deleted and no longer listed.
C14_CleanupRoundTrip ==
    (/\ call = "render"
     /\ pc = "returned"
     /\ \A r \in DOMAIN runs :
          /\ runs[r].clean_render
          /\ runs[r].outcome = "returned"
          /\ Cardinality(OutputPaths(runs[r].pages)) = Len(iter_hierarchy(runs[r].pages, <<>>)))
        => /\ Generated = OutputPaths(pages)
           /\ Names(manifest) = OutputPaths(pages)
           /\ Len(manifest) = Cardinality(OutputPaths(pages))

\* Two pages are rendered, then the second page is removed from the
\* configuration and the first is rendered again: one file and one
\* manifest entry are left.
C14_Witness ==
    /\ call = "render"
    /\ pc = "returned"
    /\ Len(runs) = 2
    /\ runs[1].clean_render /\ runs[1].outcome = "returned"
    /\ Len(runs[1].pages) = 2
    /\ pages = <<runs[1].pages[1]>>
    /\ clean_render
    /\ manifest = <<<<"content", SLASH, "index", ".md">> >>
    /\ Generated = {<<"content", SLASH, "index", ".md">>}
    /\ <<"content", SLASH, "reference", SLASH, "api", ".md">> \notin DOMAIN files

\* C15: the cleanup phase is entered exactly when clean_render is set, and no
\* step of a render with clean_render unset removes a file; the cleanup
\* removes the files the previous manifest records and no other file, leaves
\* the other files as they are, passes over a recorded file that is missing
\* and goes on to the pages; a render that returns has rendered every page.
C15_CleanupConditionalTolerant ==
    /\ [](pc = "returned" => Len(known_files) = Len(Items))
    /\ [][/\ (pc' = "cleanup" /\ pc # "cleanup") => clean_render'
          /\ (pc \in {"idle", "returned", "raised"} /\ pc' = "pages") => ~clean_render'
          /\ (pc' # "idle" /\ ~clean_render') => DOMAIN files \subseteq DOMAIN files'
          /\ pc = "cleanup"
                => /\ DOMAIN files' = DOMAIN files \ Names(manifest)
                   /\ \A name \in DOMAIN files' : files'[name] = files[name]
                   /\ pc' = "pages"]_vars

\* A render with clean_render set has returned after its cleanup met a
\* recorded file that was no longer on disk; the file of the user is still there.
C15_Witness ==
    /\ call = "render"
    /\ pc = "returned"
    /\ clean_render
    /\ runs[Len(runs)].not_found # {}
    /\ Len(known_files) = Len(Items)
    /\ Len(Items) > 0
    /\ <<"content", SLASH, "notes", ".md">> \in DOMAIN files

\* Every file recorded in the running render is on disk and holds what the
\* last page written to it wrote.
WrittenKept ==
    \A i \in DOMAIN known_files :
        /\ known_files[i] \in DOMAIN files
        /\ files[known_files[i]] =
             _render_page(modules, Items[MaxOr({j \in DOMAIN known_files : known_files[j] = known_files[i]}, i)].page)

\* C16: when writing the file of a page fails, the error leaves render, the
\* step changes no file, every file written earlier in the run is on disk
\* with the content written for it, and after the error no file is written
\* or changed by that render call.
C16_WriteFailureNoRollback ==
    /\ []((call = "render" /\ pc = "raised") => WrittenKept)
    /\ [][/\ (pc = "pages" /\ known_files' = known_files /\ Len(known_files) < Len(Items))
                => (pc' = "raised" /\ files' = files)
          /\ (pc = "raised" /\ runs' = runs)
                => \A name \in DOMAIN files' : name \in DOMAIN files /\ files'[name] = files[name]]_vars

\* The second of three pages failed: the first is on disk, the others are not.
C16_Witness ==
    /\ call = "render"
    /\ pc = "raised"
    /\ Len(runs) = 1
    /\ Len(Items) = 3
    /\ known_files = <<<<"content", SLASH, "lost", ".md">> >>
    /\ Generated = {<<"content", SLASH, "lost", ".md">>}

\* The page names a source file that is not in the directory of the context.
SourceMissing(pg) == pg.source # None /\ pg.source.text # <<"intro", ".md">>

\* C17: a page whose source file does not exist is written with its
\* frontmatter and with the rendered API content alone as its body, and the
\* render goes on: when it returns, every page has been rendered.
C17_MissingSourceNonFatal ==
    /\ pc = "returned" => Len(known_files) = Len(Items)
    /\ (call = "render" /\ pc \in {"pages", "returned"})
         => \A i \in DOMAIN known_files :
              (/\ SourceMissing(Items[i].page)
               /\ \A j \in DOMAIN known_files : known_files[j] = known_files[i] => j <= i)
                 => /\ known_files[i] \in DOMAIN files
                    /\ files[known_files[i]].frontmatter = _build_frontmatter(modules, Items[i].page)
                    /\ files[known_files[i]].content = _render_api_content(modules, Items[i].page)

\* The first page names a missing source file and lists a module, the
\* second names it and lists none, the third has a source file; all are on disk.
C17_Witness ==
    /\ call = "render"
    /\ pc = "returned"
    /\ Len(Items) = 3
    /\ SourceMissing(Items[1].page)
    /\ <<"content", SLASH, "lost", ".md">> \in DOMAIN files
    /\ files[<<"content", SLASH, "lost", ".md">>].content = <<"#", SP, "documented", NL>>
    /\ files[<<"content", SLASH, "lost", ".md">>].frontmatter["title"] = Text(<<"lost">>)
    /\ <<"content", SLASH, "bare", ".md">> \in DOMAIN files
    /\ files[<<"content", SLASH, "bare", ".md">>].content = <<>>
    /\ <<"content", SLASH, "guide", ".md">> \in DOMAIN files
    /\ files[<<"content", SLASH, "guide", ".md">>].content =
         <<"Intro", SP, "text", ".", NL, NL, NL, "#", SP, "documented", NL>>

(***************************************************************************)
(* Properties of the functions of utils.py and of the resolver.            *)
(***************************************************************************)

\* The place in the normalized name of the k-th character of a name without
\* dash: one further for every upper-case letter after the first character
\* up to it.
PlaceOf(S, k) == k + Cardinality({j \in 2..k : IsUpper(S[j])})

\* C18: the normalized name of a name with a dash is its lower-casing, which
\* normalizes to itself; the normalized name of a name without a dash is its
\* lower-casing with one dash before every upper-case letter that is not the
\* first character, so a lower-case word is returned unchanged; UCodeGroup
\* gives u-code-group, UAlert gives u-alert and u-alert gives u-alert.
C18_KebabCase ==
    Returned("_convert_to_kebab_case")
        => LET S == args.component_name
               n == Len(S)
           IN /\ (\E k \in 1..n : S[k] = DASH)
                    => /\ result = [k \in 1..n |-> LowerChar(S[k])]
                       /\ _convert_to_kebab_case(result) = result
              /\ (\A k \in 1..n : S[k] # DASH)
                    => /\ Len(result) = PlaceOf(S, n)
                       /\ \A k \in 1..n :
                            /\ result[PlaceOf(S, k)] = LowerChar(S[k])
                            /\ (k > 1 /\ IsUpper(S[k])) => result[PlaceOf(S, k) - 1] = DASH
              /\ (\A k \in 1..n : S[k] # DASH /\ ~IsUpper(S[k])) => result = S
              /\ S = UAlert => result = <<"u", DASH, "a", "l", "e", "r", "t">>
              /\ S = <<"u", DASH, "a", "l", "e", "r", "t">> => result = S

\* UCodeGroup has been normalized to u-code-group.
C18_Witness ==
    /\ Returned("_convert_to_kebab_case")
    /\ args.component_name = UCodeGroup
    /\ result = <<"u", DASH, "c", "o", "d", "e", DASH, "g", "r", "o", "u", "p">>

\* The characters of a text, every upper-case letter replaced by its lower-case letter.
Lowered(s) == [k \in DOMAIN s |-> LowerChar(s[k])]

\* C19: resolve_ref returns the lower-cased text made of a slash, the base
\* path of the resolver, a slash and the reference with every dot replaced
\* by a slash (a slash and that path when the base path is empty); the
\* result begins with a slash followed by the base path.
C19_ResolveRef ==
    Returned("resolve_ref")
        => LET base == StripSlashes(args.base_path)
               path == [k \in DOMAIN args.ref |-> IF args.ref[k] = "." THEN SLASH ELSE args.ref[k]]
           IN /\ result = IF base = <<>>
                          THEN Lowered(<<SLASH>> \o path)
                          ELSE Lowered(<<SLASH>> \o base \o <<SLASH>> \o path)
              /\ Len(result) >= 1 + Len(base)
              /\ SubSeq(result, 1, 1 + Len(base)) = Lowered(<<SLASH>> \o base)

\* C20: the breadcrumbs are a root entry titled Documentation that links to
\* base_url, followed by one entry for each dotted segment of module_path in
\* order (n segments give n + 1 entries); the last entry has the last
\* segment as title and no link.
C20_Breadcrumbs ==
    Returned("generate_api_breadcrumbs")
        => LET segments == split(args.module_path)
               n == Len(segments)
           IN /\ Len(result) = n + 1
              /\ result[1] = [title |-> <<"Documentation">>, to |-> args.base_url]
              /\ \A i \in 1..n : result[i + 1].title = segments[i]
              /\ result[n + 1] = [title |-> segments[n]]

(***************************************************************************)
(* Further properties of the rewrite rules.                                *)
(***************************************************************************)

\* The text between the backticks of a bullet.
Backticked(id) == Slice(Body(id), 4, FindTok(Body(id), 4, BT) - 1)

\* C21: after _convert_arguments_to_mdc has rewritten an Arguments section
\* of well-formed bullets, the text between the backticks of every bullet is
\* a contiguous part of the result, the result has the opening marker of the
\* arguments component, and the Arguments heading is gone.
C21_BacktickedTextKept ==
    (Returned("_convert_arguments_to_mdc") /\ \A k \in DOMAIN given : given[k] # "b_bare")
        => /\ \A k \in DOMAIN given : given[k] \in BulletIds => Contains(processed, Backticked(given[k]))
           /\ Contains(processed, OpenMarker(ArgumentsComponent))
           /\ ~Contains(processed, Heading("Arguments"))

(***************************************************************************)
(* Further properties of render.                                           *)
(***************************************************************************)

\* C22: a render call that follows a returned render call with the same
\* pages and the same clean_render, nothing having touched the output
\* directory in between, leaves the output directory as that call left it:
\* the same files with the same content and the same manifest, with
\* clean_render set and unset.
C22_RerunIdempotent ==
    (/\ call = "render"
     /\ pc = "returned"
     /\ Len(runs) >= 2
     /\ runs[Len(runs)].found # None
     /\ runs[Len(runs)].pages = runs[Len(runs) - 1].pages
     /\ runs[Len(runs)].clean_render = runs[Len(runs) - 1].clean_render)
        => /\ files = runs[Len(runs)].found.files
           /\ manifest = runs[Len(runs)].found.manifest

\* Two pages, one of them with API content, have been rendered twice in a
\* row without a cleanup: the second call wrote over the files of the first.
C22_Witness ==
    /\ call = "render"
    /\ pc = "returned"
    /\ Len(runs) = 2
    /\ runs[2].found # None
    /\ runs[2].pages = runs[1].pages
    /\ ~runs[1].clean_render /\ ~runs[2].clean_render
    /\ manifest = <<<<"content", SLASH, "index", ".md">>,
                    <<"content", SLASH, "reference", SLASH, "api", ".md">> >>
    /\ manifest = runs[2].found.manifest
    /\ files[<<"content", SLASH, "reference", SLASH, "api", ".md">>].content = <<"#", SP, "documented", NL>>

\* The page that was rendered last to the path of the i-th page of the running call.
LastTo(i) == Items[MaxOr({j \in DOMAIN known_files : known_files[j] = known_files[i]}, i)].page

\* C23: within one render call the cleanup comes first and only when
\* clean_render is set, the pages are then written one at a time in their
\* configured order, the path of each appended to the new manifest in the
\* step that writes it, and the manifest is persisted once, when the call
\* returns; no file is deleted once the pages are being written, and when
\* two pages resolve to the same path the file holds the content of the
\* page rendered later.
C23_PhaseOrder ==
    /\ [](pc = "cleanup" => (clean_render /\ known_files = <<>>))
    /\ []((call = "render" /\ pc = "returned")
            => /\ manifest = known_files
               /\ Len(known_files) = Len(Items)
               /\ \A i \in DOMAIN known_files :
                    /\ known_files[i] \in DOMAIN files
                    /\ files[known_files[i]] = _render_page(modules, LastTo(i)))
    /\ [][/\ (pc \in {"idle", "returned", "raised"} /\ pc' # "idle")
                => (files' = files /\ manifest' = manifest /\ known_files' = <<>>
                    /\ pc' = IF clean_render' THEN "cleanup" ELSE "pages")
          /\ pc = "cleanup" => (pc' = "pages" /\ known_files' = <<>> /\ manifest' = manifest)
          /\ pc = "pages"
                => /\ DOMAIN files \subseteq DOMAIN files'
                   /\ known_files' # known_files
                        => /\ known_files' = Append(known_files, _get_page_filename(Items[Len(known_files) + 1],
                                                                                 Items[Len(known_files) + 1].page))
                           /\ pc' = "pages"
                           /\ manifest' = manifest
                           /\ \A name \in DOMAIN files' :
                                name # known_files'[Len(known_files')] => (name \in DOMAIN files /\ files'[name] = files[name])
                   /\ manifest' # manifest => pc' \in {"returned", "raised"}
          /\ (pc' = "returned" /\ pc # "returned") => (pc = "pages" /\ files' = files)]_vars

\* A page and the child of a second page resolve to content/index.md; the
\* call has returned and the file holds what the child, rendered last, wrote.
C23_Witness ==
    /\ call = "render"
    /\ pc = "returned"
    /\ clean_render
    /\ known_files = <<<<"content", SLASH, "index", ".md">>,
                       <<"content", SLASH, "section", ".md">>,
                       <<"content", SLASH, "index", ".md">> >>
    /\ manifest = known_files
    /\ Items[1].page.contents = <<>>
    /\ files[<<"content", SLASH, "index", ".md">>].content = <<"#", SP, "documented", NL>>

\* C28: after any sequence of render calls that all returned, with any
\* pages and any clean_render in each, every generated file that is on disk
\* is listed in the manifest.
C28_NoUntrackedFile ==
    (/\ call = "render"
     /\ pc \in {"returned", "idle"}
     /\ \A r \in DOMAIN runs : runs[r].outcome = "returned")
        => Generated \subseteq Names(manifest)

\* The names of the sections the rules recognize.
SectionNames == {"Arguments", "Returns", "Examples", "Notes", "Note", "Warnings", "Warning", "Raises"}

\* C24: for the Returns, Examples, Notes, Warnings and Raises rules and every
\* docstring, the body a rule captures for a section holds no bolded heading
\* of a recognized section: the capture ends at the next bolded heading or
\* at the end of the text, also when the body of the section is empty and
\* the next heading follows the blank line at once.
C24_BodyStopsAtHeading ==
    (pc = "done" /\ call \in {"_convert_returns_to_mdc", "_convert_examples_to_mdc", "_convert_notes_to_mdc",
                              "_convert_warnings_to_mdc", "_convert_raises_to_mdc"})
        => \A k \in DOMAIN Captures(FirstRule(call), docstring, 1) :
              \A name \in SectionNames : ~Contains(Captures(FirstRule(call), docstring, 1)[k], Heading(name))

(***************************************************************************)
(* Properties of the frontmatter of the pages of one run.                  *)
(***************************************************************************)

\* The title a page is given: the title of the merged frontmatter, the title of the page without one.
OwnTitle(pg) ==
    IF "title" \in DOMAIN Merge(default_frontmatter, pg.frontmatter)
    THEN Merge(default_frontmatter, pg.frontmatter)["title"]
    ELSE Text(pg.title)

\* C25: _build_frontmatter changes neither default_frontmatter nor the
\* frontmatter map of the page, a nested navigation map included, so the
\* frontmatter assembled for each page of a run has the title, the
\* description, the navigation and the seo entry derived for that page:
\* nothing derived for an earlier page is in it.
C25_AssemblyIsPure ==
    /\ [](call = "_render_all_pages"
            => \A k \in DOMAIN result :
                 /\ result[k]["title"] = OwnTitle(pages[k])
                 /\ result[k] = _build_frontmatter(modules, pages[k])
                 /\ ("navigation" \in DOMAIN result[k] /\ result[k]["navigation"].kind = "map")
                      => /\ "title" \in DOMAIN Merge(default_frontmatter, pages[k].frontmatter)["navigation"].map
                            \/ result[k]["navigation"].map["title"] = OwnTitle(pages[k])
                         /\ "seo" \in DOMAIN Merge(default_frontmatter, pages[k].frontmatter)
                            \/ result[k]["seo"].map["title"].text =
                                 OwnTitle(pages[k]).text \o <<SP, DASH, SP, "Diseño", SP, "técnico">>)
    /\ [][default_frontmatter' = default_frontmatter /\ pages' = pages]_vars

\* The navigation map of the defaults is empty and two pages with different
\* titles take it: each has its own title in its navigation, and the map of
\* the defaults is still empty.
C25_Witness ==
    /\ call = "_render_all_pages"
    /\ pc = "done"
    /\ Len(result) = 2
    /\ "navigation" \in DOMAIN default_frontmatter
    /\ default_frontmatter["navigation"] = Map(Empty)
    /\ pages[1] = [title |-> <<"API">>, frontmatter |-> Empty]
    /\ pages[2] = [title |-> <<"Guide">>, frontmatter |-> Empty]
    /\ result[1]["navigation"].map["title"] = Text(<<"API">>)
    /\ result[2]["navigation"].map["title"] = Text(<<"Guide">>)
    /\ result[2]["seo"].map["title"] = Text(<<"Guide", SP, DASH, SP, "Diseño", SP, "técnico">>)

(***************************************************************************)
(* Properties of _process_docstring_for_mdc called on its own output.      *)
(***************************************************************************)

\* C26: the pipeline is idempotent: when the second call of
\* _process_docstring_for_mdc, made on what the first call returned, is done,
\* it returns what the first call returned.
C26_PipelineIdempotent ==
    (pc = "done" /\ result # <<>>) => processed = result[1]

\* The texts of the lines of a block that are neither a section heading nor
\* a fence: a paragraph as it is written, the code of a fragment, the names
\* and the descriptions of list lines.
LineTexts(id) ==
    CASE id \in {"intro", "e_prose", "x_prose"} -> {Body(id)}
      [] id = "f_py" -> {<<"x", SP, "=", SP, "one">>}
      [] id = "f_sh" -> {<<"ls">>}
      [] id = "x_value" -> {<<"ValueError">>, <<"bad", SP, "value">>}
      [] id = "s_args" -> {<<"alpha">>, <<"first">>, <<"beta">>, <<"str">>, <<"second", SP, "value">>}
      [] id = "s_returns" -> {<<"the", SP, "result", ".">>}
      [] id = "s_examples" -> {<<"x", SP, "=", SP, "one">>, <<"ls">>}
      [] id = "s_notes" -> {<<"keep", SP, "it", ".">>}
      [] id = "s_warnings" -> {<<"not", SP, "safe", ".">>}
      [] id = "s_raises" -> {<<"ValueError">>, <<"bad", SP, "value">>, <<"TypeError">>, <<"bad", SP, "type">>}
      [] OTHER -> {}

\* C27: no docstring content is dropped: when _process_docstring_for_mdc
\* returns, the text of every line of its docstring that is neither a section
\* heading nor a fence is in the returned text, as it was or inside a component.
C27_NoContentDropped ==
    (pc = "done" /\ result = <<>>) =>
        \A k \in 1..Len(given) : \A t \in LineTexts(given[k]) : Contains(processed, t)

(***************************************************************************)
(* Further properties of the grouping of loose code blocks.                *)
(***************************************************************************)

\* Where the fenced blocks of the docstring of the call lie: the index of
\* the first character of the opening fence of a block and the index of the
\* last character of its closing fence.
BlockSpans ==
    {<<Len(Render(SubSeq(given, 1, k - 1))) + Len(Separator(given, k)) + 1, Len(Render(SubSeq(given, 1, k)))>> :
        k \in {j \in 1..Len(given) : given[j] \in FragmentIds}}

\* The matches that _convert_code_blocks_to_mdc places in a group it converts.
GroupedMatches(text) ==
    With(FindCode(text, 1), LAMBDA matches :
        IF Len(matches) <= 1 THEN {}
        ELSE With(GroupBlocks(text, matches, 1, <<>>, <<>>, 1), LAMBDA groups :
                UNION {{groups[g][k] : k \in 1..Len(groups[g])} : g \in {j \in 1..Len(groups) : Len(groups[j]) > 1}}))

\* C29: every fragment that _convert_code_blocks_to_mdc places in a group
\* starts at the opening fence of a fenced block of its input and ends at the
\* closing fence of that same block, and the code of every fenced block of
\* the input is in the returned text.
C29_GenuineFragments ==
    Returned("_convert_code_blocks_to_mdc") =>
        /\ \A m \in GroupedMatches(docstring) : <<m.start, m.end - 1>> \in BlockSpans
        /\ \A k \in 1..Len(given) : given[k] \in FragmentIds => Contains(processed, PromisedBlock(given[k]).code)

(***************************************************************************)
(* Properties of get_resolver.                                             *)
(***************************************************************************)

\* The base path the documentation promises for a content directory: the
\* names after a first name content, joined by slashes (none gives the empty
\* path), and the content directory itself when its first name is another.
PromisedBasePath(directory) ==
    LET parts == PathParts(directory)
    IN IF parts # <<>> /\ Lower(parts[1]) = <<"c", "o", "n", "t", "e", "n", "t">>
       THEN Concat([k \in 1..(Len(parts) - 1) |-> (IF k > 1 THEN <<SLASH>> ELSE <<>>) \o parts[k + 1]])
       ELSE StripSlashes(directory)

\* C30: get_resolver is total: for every content directory, the default
\* content included, the call returns a resolver and does not raise, and the
\* base path of the resolver is the content directory without a leading
\* name content (empty for content alone), or the content directory itself.
C30_GetResolverTotal ==
    (call = "get_resolver" /\ pc # "get_resolver") =>
        /\ pc = "done"
        /\ result.base_path = PromisedBasePath(content_directory)

====
